---- MODULE Spec2Model ----
(***************************************************************************)
(* kyselyx: a CLI that drives two timestamp-named artifact sequences,      *)
(* migrations and seeds, against one database.  The model covers the seed  *)
(* target resolver (utils.ts getTargetSeed), the classifiers getMigrations *)
(* and getSeeds, the name parser and matcher, and the orchestration        *)
(* commands of migrate.ts and seed.ts together with the runner calls       *)
(* (Migrator.migrateTo, Seeder.seedTo) they start.                         *)
(***************************************************************************)
EXTENDS Integers, Sequences, FiniteSets

\* ------------------------------------------------------------------------
\* Bounds of the model
\* ------------------------------------------------------------------------
MaxTs == 4
MaxMigrations == 3
MaxSeeds == 2
MaxNameLen == 4

Timestamps == 1..MaxTs

\* ------------------------------------------------------------------------
\* JavaScript values
\* ------------------------------------------------------------------------
Undefined == [kind |-> "undefined"]
NaN == -1
Infinity == MaxTs + 1

NO_MIGRATIONS == [kind |-> "NoMigrations", __noMigrations__ |-> TRUE]
NO_SEEDS == [kind |-> "NoSeeds", __noSeeds__ |-> TRUE]

Ok(v) == [kind |-> "ok", value |-> v]
Err(type, traceId) == [kind |-> "err", error |-> [type |-> type, traceId |-> traceId]]
Throw(type) == [kind |-> "throw", error |-> [type |-> type]]
\* An error of getNameParts: its message quotes item.name
NameError(type, traceId, name) ==
  [kind |-> "err", error |-> [type |-> type, traceId |-> traceId, name |-> name]]

isNoMigrations(migration) == migration.kind = "NoMigrations"
isNoSeeds(seed) == seed.kind = "NoSeeds"
Truthy(v) == v # Undefined

\* Array.prototype.at on a 1-based sequence: i is the 0-based JavaScript
\* index, a negative i counts from the end, out of range gives undefined.
At(arr, i) ==
  LET j == IF i < 0 THEN Len(arr) + i ELSE i
  IN IF j >= 0 /\ j < Len(arr) THEN arr[j + 1] ELSE Undefined

Range(seq) == {seq[i] : i \in 1..Len(seq)}

\* Array.prototype.findIndex: 0-based index of the first element that
\* satisfies the callback (`matching` is the set of the elements that do), or -1.
FindIndex(arr, matching) ==
  IF \E i \in 1..Len(arr) : arr[i] \in matching
  THEN (CHOOSE i \in 1..Len(arr) :
          arr[i] \in matching /\ \A j \in 1..(i - 1) : arr[j] \notin matching) - 1
  ELSE -1

\* Array.prototype.find
Find(arr, matching) ==
  At(arr, IF FindIndex(arr, matching) = -1 THEN Len(arr) ELSE FindIndex(arr, matching))

\* ------------------------------------------------------------------------
\* Strings are sequences of one-character strings
\* ------------------------------------------------------------------------
DigitChars == <<"0", "1", "2", "3", "4", "5", "6", "7", "8", "9">>
IsDigit(c) == \E d \in 1..10 : DigitChars[d] = c
DigitValue(c) == (CHOOSE d \in 1..10 : DigitChars[d] = c) - 1

\* Number.prototype.toString for a non-negative integer
RECURSIVE NumberToString(_)
NumberToString(n) ==
  IF n < 10 THEN <<DigitChars[n + 1]>>
  ELSE NumberToString(n \div 10) \o <<DigitChars[(n % 10) + 1]>>

\* parseInt of a string of decimal digits; parseInt("") is NaN
RECURSIVE ParseDigits(_, _)
ParseDigits(s, acc) ==
  IF s = <<>> THEN acc ELSE ParseDigits(Tail(s), acc * 10 + DigitValue(Head(s)))

parseInt(s) == IF s = <<>> \/ ~IsDigit(s[1]) THEN NaN ELSE ParseDigits(s, 0)

\* The longest run of digits at the start of s (the greedy \d+ or \d*)
RECURSIVE LeadingDigits(_)
LeadingDigits(s) ==
  IF s = <<>> \/ ~IsDigit(Head(s)) THEN <<>>
  ELSE <<Head(s)>> \o LeadingDigits(Tail(s))

\* The line terminators, which `.` of a regular expression does not match
LineTerminators == {"\n"}

\* The longest prefix of s that `.*` matches
RECURSIVE UpToLineTerminator(_)
UpToLineTerminator(s) ==
  IF s = <<>> \/ Head(s) \in LineTerminators THEN <<>>
  ELSE <<Head(s)>> \o UpToLineTerminator(Tail(s))

\* The file name (without extension) that generate writes:
\* `${Date.now()}_${name}`
GeneratedName(timestamp, label) == NumberToString(timestamp) \o <<"_">> \o label

\* The labels the generated artifacts of the model carry
LabelOf(timestamp) == IF timestamp % 2 = 1 THEN <<"a">> ELSE <<"b">>

\* ------------------------------------------------------------------------
\* State
\* ------------------------------------------------------------------------
VARIABLES
  migrationsFolderExists, \* fs.existsSync(migrationsFolder)
  seedsFolderExists,      \* fs.existsSync(seedsFolder)
  migrationFiles,         \* names of the migration files, in the runner's order
  seedFiles,              \* names of the seed files, in the runner's order
  executedMigrations,     \* names recorded in the kyselyx_migration table
  executedSeeds,          \* names recorded in the kyselyx_seed table
  pc,                     \* "idle": no CLI process; "main": the command function
                          \* awaits its runner call; "returned": the command
                          \* function has returned, a started call is pending;
                          \* "exited": the process has ended
  command,                \* the command of the current (or last) invocation
  resolution,             \* the getTargetSeed call of this invocation, if any
  seedToCall,             \* the Seeder.seedTo call of this invocation
  migrateToCall,          \* the Migrator.migrateTo call of this invocation
  before,                 \* the two tables when the invocation started
  report,                 \* the spinner's verdict: "none", "succeed" or "fail"
  exitCode,               \* the exit code of the process once pc = "exited"
  returned,               \* what a direct call of getNameParts or doesNameMatch
                          \* returned
  observed                \* the applied migrations a sequence of invocations
                          \* started from and those read after each of them

vars == <<migrationsFolderExists, seedsFolderExists, migrationFiles, seedFiles,
          executedMigrations, executedSeeds, pc, command, resolution,
          seedToCall, migrateToCall, before, report, exitCode, returned,
          observed>>

files == <<migrationsFolderExists, seedsFolderExists, migrationFiles, seedFiles>>

\* ------------------------------------------------------------------------
\* utils.ts: getNameParts
\* ------------------------------------------------------------------------
\* /(?<timestamp>^\d+)_(?<label>.+)$/.exec(item.name)?.groups || {}
NamePartsGroups(name) ==
  LET digits == LeadingDigits(name)
      n == Len(digits)
  IN IF /\ n >= 1 /\ Len(name) >= n + 2 /\ name[n + 1] = "_"
        /\ UpToLineTerminator(SubSeq(name, n + 2, Len(name))) = SubSeq(name, n + 2, Len(name))
     THEN [timestamp |-> digits, label |-> SubSeq(name, n + 2, Len(name))]
     ELSE [timestamp |-> <<>>, label |-> <<>>]

\* const timestampMs = parseInt(timestamp || ""); the checks that follow
NameParts(item, timestampMs, label) ==
  IF timestampMs = NaN
  THEN IF item.kind = "migration" THEN NameError("MigrationError", "b5ad2d", item.name)
       ELSE NameError("SeedError", "20f040", item.name)
  ELSE IF label = <<>>
  THEN IF item.kind = "migration" THEN NameError("MigrationError", "2a7630", item.name)
       ELSE NameError("SeedError", "7dd89b", item.name)
  ELSE Ok([timestamp |-> timestampMs, label |-> label])

getNameParts(item) ==
  LET groups == NamePartsGroups(item.name)
  IN NameParts(item, parseInt(groups.timestamp), groups.label)

\* ------------------------------------------------------------------------
\* The runners' listings (Migrator.getMigrations, Seeder.getSeeds): every
\* file in the runner's order, with executedAt set iff its name is recorded
\* in the runner's table.
\* ------------------------------------------------------------------------
MigratorGetMigrations ==
  [i \in 1..Len(migrationFiles) |->
     [kind |-> "migration", name |-> migrationFiles[i],
      executedAt |-> migrationFiles[i] \in executedMigrations]]

SeederGetSeeds ==
  [i \in 1..Len(seedFiles) |->
     [kind |-> "seed", name |-> seedFiles[i],
      executedAt |-> seedFiles[i] \in executedSeeds]]

\* ------------------------------------------------------------------------
\* utils.ts: getMigrator, getSeeder, getMigrations, getSeeds
\* ------------------------------------------------------------------------
getMigrator ==
  IF ~migrationsFolderExists THEN Err("ConfigError", "3cb1db") ELSE Ok("migrator")

getSeeder ==
  IF ~seedsFolderExists THEN Err("ConfigError", "82bc3a") ELSE Ok("seeder")

\* (_LastError: a loop that goes on after a name that does not parse and
\* returns the error of the last such item)
Classified_LastError(items, parts, listing) ==
  LET bad == {i \in 1..Len(parts) : parts[i].kind = "err"}
      all == [i \in 1..Len(items) |->
                [kind |-> items[i].kind, name |-> items[i].name,
                 executedAt |-> items[i].executedAt,
                 timestamp |-> parts[i].value.timestamp,
                 label |-> parts[i].value.label,
                 listing |-> listing]]
  IN IF bad # {} THEN parts[CHOOSE i \in bad : \A j \in bad : j <= i]
     ELSE Ok([all |-> all,
              applied |-> SelectSeq(all, LAMBDA it : it.executedAt),
              unapplied |-> SelectSeq(all, LAMBDA it : ~it.executedAt)])
\* The loop of getMigrations and getSeeds over the runner's items: the error
\* of the first item whose name does not parse, else the three lists.  Every
\* call builds new objects ({ ...item, timestamp, label }); `listing` is the
\* identity of the objects this call builds.  `parts` are the results of
\* getNameParts, item by item.
Classified(items, parts, listing) ==
  LET bad == FindIndex(parts, {namePartsRes \in Range(parts) : namePartsRes.kind = "err"})
      all == [i \in 1..Len(items) |->
                [kind |-> items[i].kind, name |-> items[i].name,
                 executedAt |-> items[i].executedAt,
                 timestamp |-> parts[i].value.timestamp,
                 label |-> parts[i].value.label,
                 listing |-> listing]]
  IN IF bad # -1 THEN parts[bad + 1]
     ELSE Ok([all |-> all,
              applied |-> SelectSeq(all, LAMBDA it : it.executedAt),
              unapplied |-> SelectSeq(all, LAMBDA it : ~it.executedAt)])

Classify(items, listing) ==
  Classified(items, [i \in 1..Len(items) |-> getNameParts(items[i])], listing)

\* return ok({ allMigrations, unappliedMigrations, appliedMigrations })
MigrationLists(res) ==
  IF res.kind = "err" THEN res
  ELSE Ok([allMigrations |-> res.value.all,
           appliedMigrations |-> res.value.applied,
           unappliedMigrations |-> res.value.unapplied])

\* rejects: the promise of migrator.getMigrations() rejects
getMigrations(listing, rejects) ==
  IF rejects THEN Err("KyselyError", "6093e7")
  ELSE MigrationLists(Classify(MigratorGetMigrations, listing))

\* return ok({ allSeeds, unappliedSeeds, appliedSeeds })
SeedLists(res) ==
  IF res.kind = "err" THEN res
  ELSE Ok([allSeeds |-> res.value.all,
           appliedSeeds |-> res.value.applied,
           unappliedSeeds |-> res.value.unapplied])

getSeeds(listing, rejects) ==
  IF rejects THEN Err("KyselyError", "7dacfe")
  ELSE SeedLists(Classify(SeederGetSeeds, listing))

\* ------------------------------------------------------------------------
\* utils.ts: getTargetSeed
\* ------------------------------------------------------------------------
\* The outcomes of the reads of one invocation: every read resolves, the
\* command's own listing rejects, or one of the two reads getTargetSeed
\* awaits rejects
ListOutcomes == {"ok", "listRejects"}
ReadOutcomes == ListOutcomes \cup {"migrationsReject", "seedsReject"}

\* for (const seed of seeds.allSeeds) { if (seed.timestamp <= maxTimestamp)
\* targetSeed = seed; else break; }
\* (_First: the scan stopping at the first seed within the ceiling)
ScanSeeds_First(allSeeds, maxTimestamp) ==
  IF Len(allSeeds) > 0 /\ allSeeds[1].timestamp <= maxTimestamp THEN allSeeds[1]
  ELSE Undefined
ScanSeeds(allSeeds, maxTimestamp) ==
  LET RECURSIVE Scan(_, _)
      Scan(i, targetSeed) ==
        IF i > Len(allSeeds) THEN targetSeed
        ELSE IF allSeeds[i].timestamp <= maxTimestamp THEN Scan(i + 1, allSeeds[i])
        ELSE targetSeed
  IN Scan(1, Undefined)

\* if (props.seed.timestamp <= maxTimestamp)
\* (_Strict: the comparison with `<` in place of `<=`)
WithinCeiling_Strict(timestamp, maxTimestamp) == timestamp < maxTimestamp
WithinCeiling(timestamp, maxTimestamp) == timestamp <= maxTimestamp

\* The tail every branch shares once maxTimestamp is known
PickSeed(props, allSeeds, maxTimestamp, traceId) ==
  IF Truthy(props.seed)
  THEN IF WithinCeiling(props.seed.timestamp, maxTimestamp) THEN Ok(props.seed)
       ELSE Err("SeedError", traceId)
  ELSE LET targetSeed == ScanSeeds(allSeeds, maxTimestamp)
       IN IF Truthy(targetSeed) THEN Ok(targetSeed) ELSE Ok(NO_SEEDS)

\* x.at(0)?.timestamp ?? Infinity
FirstTimestamp(migrations) ==
  IF At(migrations, 0) = Undefined THEN Infinity ELSE At(migrations, 0).timestamp

\* migration = NoMigrations:
\* const maxTimestamp = allMigrations.at(0)?.timestamp ?? Infinity
\* (_Last: the ceiling with .at(-1) in place of .at(0))
CeilingOfNoMigrations_Last(migrations) ==
  IF At(migrations.allMigrations, -1) = Undefined THEN Infinity
  ELSE At(migrations.allMigrations, -1).timestamp
CeilingOfNoMigrations(migrations) == FirstTimestamp(migrations.allMigrations)

\* no migration given:
\* let maxTimestamp = unappliedMigrations.at(0)?.timestamp ?? Infinity
\* (_All: the ceiling read from allMigrations in place of unappliedMigrations)
CeilingOfAppliedState_All(migrations) == FirstTimestamp(migrations.allMigrations)
CeilingOfAppliedState(migrations) == FirstTimestamp(migrations.unappliedMigrations)

\* a migration given:
\* props.migration === allMigrations.at(-1) ? Infinity
\*   : allMigrations.at(migrationIdx + 1)!.timestamp
\* `===` on objects is identity; reading .timestamp of undefined throws.
\* (_Own: the ceiling as the given migration's own timestamp)
NextTimestamp_Own(migration, allMigrations) == Ok(migration.timestamp)
NextTimestamp(migration, allMigrations) ==
  LET migrationIdx == FindIndex(allMigrations, {m \in Range(allMigrations) : m.name = migration.name})
      next == At(allMigrations, migrationIdx + 1)
  IN IF migration = At(allMigrations, -1) THEN Ok(Infinity)
     ELSE IF next = Undefined THEN Throw("TypeError")
     ELSE Ok(next.timestamp)

\* The three branches that read the lists (else if isNoMigrations ... else
\* if props.migration ... else), given what the two reads returned
TargetSeedBranch(props, migrations, seeds) ==
  IF migrations.kind = "err" THEN migrations
  ELSE IF seeds.kind = "err" THEN seeds
  ELSE IF isNoMigrations(props.migration)
  THEN PickSeed(props, seeds.value.allSeeds,
                CeilingOfNoMigrations(migrations.value), "f56b28")
  ELSE IF Truthy(props.migration)
  THEN LET maxTimestamp == NextTimestamp(props.migration, migrations.value.allMigrations)
       IN IF maxTimestamp.kind = "throw" THEN maxTimestamp
          ELSE PickSeed(props, seeds.value.allSeeds, maxTimestamp.value, "e6f580")
  ELSE PickSeed(props, seeds.value.allSeeds,
                CeilingOfAppliedState(migrations.value), "1d869e")

\* The seeder and migrator checks, the early return for NoSeeds, then the
\* branches
\* (_ReadsFirst: the lists read, and their errors returned, before the
\* early return)
TargetSeed_ReadsFirst(props, migrations, seeds) ==
  IF getSeeder.kind = "err" THEN getSeeder
  ELSE IF getMigrator.kind = "err" THEN getMigrator
  ELSE IF migrations.kind = "err" THEN migrations
  ELSE IF seeds.kind = "err" THEN seeds
  ELSE IF isNoSeeds(props.seed) THEN Ok(NO_SEEDS)
  ELSE TargetSeedBranch(props, migrations, seeds)
TargetSeed(props, migrations, seeds) ==
  IF getSeeder.kind = "err" THEN getSeeder
  ELSE IF getMigrator.kind = "err" THEN getMigrator
  ELSE IF isNoSeeds(props.seed) THEN Ok(NO_SEEDS)
  ELSE TargetSeedBranch(props, migrations, seeds)

\* props: [migration, seed]; listing: the identity of the objects this call
\* lists; io: the outcome of its reads
getTargetSeed(props, listing, io) ==
  TargetSeed(props, getMigrations(listing, io = "migrationsReject"),
             getSeeds(listing, io = "seedsReject"))

\* ------------------------------------------------------------------------
\* utils.ts: doesNameMatch
\* ------------------------------------------------------------------------
\* /((?<name_ts>^\d*)_)?(?<name_lbl>.*)/.exec(name)?.groups; a group that
\* did not take part in the match is undefined, which is falsy like "".
NameMatchGroups(name) ==
  LET digits == LeadingDigits(name)
      n == Len(digits)
  IN IF Len(name) >= n + 1 /\ name[n + 1] = "_"
     THEN [name_ts |-> digits,
           name_lbl |-> UpToLineTerminator(SubSeq(name, n + 2, Len(name)))]
     ELSE [name_ts |-> <<>>, name_lbl |-> UpToLineTerminator(name)]

\* The loop over i = -1 .. -name_ts.length comparing name_ts.at(i) with
\* item_ts.at(i)
TimestampSuffixMatches(name_ts, item_ts) ==
  \A k \in 1..Len(name_ts) :
     /\ k <= Len(item_ts)
     /\ name_ts[Len(name_ts) + 1 - k] = item_ts[Len(item_ts) + 1 - k]

doesNameMatch(name, item) ==
  LET groups == NameMatchGroups(name)
  IN IF groups.name_ts # <<>> /\ groups.name_lbl # <<>>
     THEN /\ groups.name_lbl = item.label
          /\ TimestampSuffixMatches(groups.name_ts, NumberToString(item.timestamp))
     ELSE IF groups.name_lbl # <<>> THEN groups.name_lbl = item.label
     ELSE FALSE

\* ------------------------------------------------------------------------
\* The runners: Migrator.migrateTo and Seeder.seedTo bring their table to the
\* target position.  A target that is executed reverts the executed units
\* after it, last first; a pending target applies the pending units up to
\* and including it, first first; the sentinel reverts every executed unit.
\* The units a call has run stay committed when a later unit fails.
\* ------------------------------------------------------------------------
Reverse(seq) == [i \in 1..Len(seq) |-> seq[Len(seq) + 1 - i]]

IndexOf(seq, x) == CHOOSE i \in 1..Len(seq) : seq[i] = x

RunnerPlan(fileNames, executed, target) ==
  LET done == SelectSeq(fileNames, LAMBDA n : n \in executed)
      pending == SelectSeq(fileNames, LAMBDA n : n \notin executed)
  IN IF target.kind # "name"
     THEN [direction |-> "Down", todo |-> Reverse(done)]
     ELSE IF target.name \in executed /\ \E i \in 1..Len(done) : done[i] = target.name
     THEN [direction |-> "Down",
           todo |-> Reverse(SubSeq(done, IndexOf(done, target.name) + 1, Len(done)))]
     ELSE IF \E i \in 1..Len(pending) : pending[i] = target.name
     THEN [direction |-> "Up", todo |-> SubSeq(pending, 1, IndexOf(pending, target.name))]
     ELSE [direction |-> "None", todo |-> <<>>]

NoCall == [status |-> "idle", target |-> Undefined, direction |-> "None", todo |-> <<>>]

\* The call as it stands once invoked: nothing has run yet
Invoke(fileNames, executed, target) ==
  LET plan == RunnerPlan(fileNames, executed, target)
  IN [status |-> "running", target |-> target,
      direction |-> plan.direction, todo |-> plan.todo]

\* isNoMigrations(migration) ? NO_MIGRATIONS : migration.name
TargetOf(artifact) ==
  IF artifact.kind \in {"NoMigrations", "NoSeeds"} THEN artifact
  ELSE [kind |-> "name", name |-> artifact.name]

Run(executed, direction, unit) ==
  IF direction = "Up" THEN executed \cup {unit} ELSE executed \ {unit}

\* ------------------------------------------------------------------------
\* One CLI invocation
\* ------------------------------------------------------------------------
NameArg(string) == [kind |-> "string", value |-> string]

NoResolution == [called |-> FALSE, migration |-> Undefined, seed |-> Undefined,
                 io |-> "ok", result |-> Undefined]

Begin(cmd, arg) ==
  /\ pc = "idle"
  /\ command' = [name |-> cmd, arg |-> arg]
  /\ before' = [migrations |-> executedMigrations, seeds |-> executedSeeds]
  /\ UNCHANGED <<files, returned, observed, executedMigrations, executedSeeds>>

\* The command function returns (or the process exits) before any runner call
Terminate(code, verdict) ==
  /\ pc' = "exited"
  /\ exitCode' = code
  /\ report' = verdict

\* exitFailure(e): console.error(e.message); process.exit(1)
exitFailure == Terminate(1, "none")

\* The command function is suspended at `await migrator.migrateTo(...)` or
\* `await seeder.seedTo(...)`
AwaitAt(position) ==
  /\ pc' = position
  /\ exitCode' = 0
  /\ report' = "none"

Await == AwaitAt("main")

\* ------------------------------------------------------------------------
\* migrate.ts
\* ------------------------------------------------------------------------
\* let migration ... (the migration migrate brings the database to)
\* (_First: .at(0) in place of .at(-1) when no name is given)
MigrateTarget_First(allMigrations, name) ==
  IF Truthy(name)
  THEN Find(allMigrations, {m \in Range(allMigrations) : doesNameMatch(name.value, m)})
  ELSE At(allMigrations, 0)
\* (_OrLast: a name that matches nothing falls back to the last migration)
MigrateTarget_OrLast(allMigrations, name) ==
  IF Truthy(name)
     /\ {m \in Range(allMigrations) : doesNameMatch(name.value, m)} # {}
  THEN Find(allMigrations, {m \in Range(allMigrations) : doesNameMatch(name.value, m)})
  ELSE At(allMigrations, -1)
MigrateTarget(allMigrations, name) ==
  IF Truthy(name)
  THEN Find(allMigrations, {m \in Range(allMigrations) : doesNameMatch(name.value, m)})
  ELSE At(allMigrations, -1)

migrate(name, io) ==
  /\ Begin("db:migrate", name)
  /\ resolution' = NoResolution
  /\ seedToCall' = NoCall
  /\ LET listed == getMigrations(1, io = "listRejects")
         migration == MigrateTarget(listed.value.allMigrations, name)
     IN IF getMigrator.kind = "err" \/ listed.kind = "err"
        THEN exitFailure /\ migrateToCall' = NoCall
        ELSE IF ~Truthy(migration)
        THEN Terminate(0, "fail") /\ migrateToCall' = NoCall
        ELSE /\ migrateToCall' = Invoke(migrationFiles, executedMigrations, TargetOf(migration))
             /\ Await

\* let migration ... (the rollback target of undo)
\* (_Last: .at(-1) in place of .at(-2) when no name is given)
MigrationUndoTarget_Last(appliedMigrations, name) ==
  IF Truthy(name)
  THEN LET namedMigration == Find(appliedMigrations, {m \in Range(appliedMigrations) : doesNameMatch(name.value, m)})
           namedMigrationIdx == FindIndex(appliedMigrations, {namedMigration})
       IN IF ~Truthy(namedMigration) THEN Undefined
          ELSE IF namedMigrationIdx = -1 THEN Undefined
          ELSE IF namedMigrationIdx = 0 THEN NO_MIGRATIONS
          ELSE At(appliedMigrations, namedMigrationIdx - 1)
  ELSE IF Len(appliedMigrations) > 1 THEN At(appliedMigrations, -1)
  ELSE IF Len(appliedMigrations) = 1 THEN NO_MIGRATIONS
  ELSE Undefined
MigrationUndoTarget(appliedMigrations, name) ==
  IF Truthy(name)
  THEN LET namedMigration == Find(appliedMigrations, {m \in Range(appliedMigrations) : doesNameMatch(name.value, m)})
           namedMigrationIdx == FindIndex(appliedMigrations, {namedMigration})
       IN IF ~Truthy(namedMigration) THEN Undefined
          ELSE IF namedMigrationIdx = -1 THEN Undefined
          ELSE IF namedMigrationIdx = 0 THEN NO_MIGRATIONS
          ELSE At(appliedMigrations, namedMigrationIdx - 1)
  ELSE IF Len(appliedMigrations) > 1 THEN At(appliedMigrations, -2)
  ELSE IF Len(appliedMigrations) = 1 THEN NO_MIGRATIONS
  ELSE Undefined

\* .mapErr((e) => { if (e instanceof ConfigError) feed.succeed(...);
\*                  else exitFailure(...) }); a throw of getTargetSeed
\* rejects the command's promise
\* (_Never: a mapErr that treats every error as the ConfigError)
\* (_Always: a mapErr that calls exitFailure for every error)
SeedRollbackAborts_Never(res) == res.kind = "throw"
SeedRollbackAborts_Always(res) == res.kind # "ok"
SeedRollbackAborts(res) ==
  res.kind = "throw" \/ (res.kind = "err" /\ res.error.type # "ConfigError")

\* "find seed to rollback to" and "rollback the migrations" of undo and
\* undoAll.  The callback given to getSeeder().map is async and its promise
\* is dropped: seeder.seedTo is started, and the command goes on to call
\* migrator.migrateTo without waiting for it.
RollBackAt(migration, io, position) ==
  LET res == getTargetSeed([migration |-> migration, seed |-> Undefined], 2, io)
  IN /\ resolution' = [called |-> TRUE, migration |-> migration, seed |-> Undefined,
                       io |-> io, result |-> res]
     /\ IF SeedRollbackAborts(res)
        THEN /\ exitFailure
             /\ seedToCall' = NoCall
             /\ migrateToCall' = NoCall
        ELSE /\ seedToCall' = IF res.kind = "ok"
                              THEN Invoke(seedFiles, executedSeeds, TargetOf(res.value))
                              ELSE NoCall
             /\ migrateToCall' = Invoke(migrationFiles, executedMigrations, TargetOf(migration))
             /\ AwaitAt(position)

RollBack(migration, io) == RollBackAt(migration, io, "main")

\* (_AmongAll: the target looked up among all migrations, not the applied ones)
migrateUndo_AmongAll(name, io) ==
  /\ Begin("db:migrate:undo", name)
  /\ LET listed == getMigrations(1, io = "listRejects")
         migration == MigrationUndoTarget(listed.value.allMigrations, name)
     IN IF getMigrator.kind = "err" \/ listed.kind = "err"
        THEN exitFailure /\ resolution' = NoResolution
             /\ seedToCall' = NoCall /\ migrateToCall' = NoCall
        ELSE IF ~Truthy(migration)
        THEN /\ Terminate(0, IF Truthy(name) THEN "fail" ELSE "succeed")
             /\ resolution' = NoResolution
             /\ seedToCall' = NoCall /\ migrateToCall' = NoCall
        ELSE RollBack(migration, io)
\* undo once its rollback target is chosen
migrateUndoWith(migration, name, io) ==
  LET listed == getMigrations(1, io = "listRejects")
  IN IF getMigrator.kind = "err" \/ listed.kind = "err"
     THEN exitFailure /\ resolution' = NoResolution
          /\ seedToCall' = NoCall /\ migrateToCall' = NoCall
     ELSE IF ~Truthy(migration)
     THEN /\ Terminate(0, IF Truthy(name) THEN "fail" ELSE "succeed")
          /\ resolution' = NoResolution
          /\ seedToCall' = NoCall /\ migrateToCall' = NoCall
     ELSE RollBack(migration, io)

\* The body of undo: what one call of the function does
migrateUndoBody(name, io) ==
  migrateUndoWith(MigrationUndoTarget(
                    getMigrations(1, io = "listRejects").value.appliedMigrations,
                    name), name, io)

migrateUndo(name, io) ==
  /\ Begin("db:migrate:undo", name)
  /\ migrateUndoBody(name, io)

\* The body of undoAll: what one call of the function does
\* (_MigrationsOnly: an undoAll that reverts the migrations and leaves the
\* seeds alone)
migrateUndoAllBody_MigrationsOnly(io) ==
  LET listed == getMigrations(1, io = "listRejects")
  IN IF getMigrator.kind = "err" \/ listed.kind = "err"
     THEN exitFailure /\ resolution' = NoResolution
          /\ seedToCall' = NoCall /\ migrateToCall' = NoCall
     ELSE IF Len(listed.value.appliedMigrations) = 0
     THEN /\ Terminate(0, "fail")
          /\ resolution' = NoResolution
          /\ seedToCall' = NoCall /\ migrateToCall' = NoCall
     ELSE /\ resolution' = NoResolution
          /\ seedToCall' = NoCall
          /\ migrateToCall' = Invoke(migrationFiles, executedMigrations, NO_MIGRATIONS)
          /\ Await
migrateUndoAllBody(io) ==
  LET listed == getMigrations(1, io = "listRejects")
  IN IF getMigrator.kind = "err" \/ listed.kind = "err"
     THEN exitFailure /\ resolution' = NoResolution
          /\ seedToCall' = NoCall /\ migrateToCall' = NoCall
     ELSE IF Len(listed.value.appliedMigrations) = 0
     THEN /\ Terminate(0, "fail")
          /\ resolution' = NoResolution
          /\ seedToCall' = NoCall /\ migrateToCall' = NoCall
     ELSE RollBack(NO_MIGRATIONS, io)

migrateUndoAll(io) ==
  /\ Begin("db:migrate:undo:all", Undefined)
  /\ migrateUndoAllBody(io)

\* ------------------------------------------------------------------------
\* seed.ts
\* ------------------------------------------------------------------------
seed(name, io) ==
  /\ Begin("db:seed", name)
  /\ migrateToCall' = NoCall
  /\ LET listed == getSeeds(1, io = "listRejects")
         named == IF Truthy(name)
                  THEN Find(listed.value.allSeeds, {s \in Range(listed.value.allSeeds) : doesNameMatch(name.value, s)})
                  ELSE Undefined
         res == getTargetSeed([migration |-> Undefined, seed |-> named], 2, io)
     IN IF getSeeder.kind = "err" \/ listed.kind = "err" \/ (Truthy(name) /\ ~Truthy(named))
        THEN exitFailure /\ resolution' = NoResolution /\ seedToCall' = NoCall
        ELSE /\ resolution' = [called |-> TRUE, migration |-> Undefined, seed |-> named,
                               io |-> io, result |-> res]
             /\ IF res.kind # "ok"
                THEN exitFailure /\ seedToCall' = NoCall
                ELSE /\ seedToCall' = Invoke(seedFiles, executedSeeds, TargetOf(res.value))
                     /\ Await

\* let seed ... (the rollback target of undo)
\* (_Matched: the matched seed itself as the target, not the one before it)
SeedUndoTarget_Matched(appliedSeeds, name) ==
  IF Truthy(name)
  THEN LET namedSeed == Find(appliedSeeds, {s \in Range(appliedSeeds) : doesNameMatch(name.value, s)})
           namedSeedIdx == FindIndex(appliedSeeds, {namedSeed})
       IN IF ~Truthy(namedSeed) THEN Undefined
          ELSE IF namedSeedIdx = 0 THEN NO_SEEDS
          ELSE At(appliedSeeds, namedSeedIdx)
  ELSE IF Len(appliedSeeds) > 1 THEN At(appliedSeeds, -2)
  ELSE IF Len(appliedSeeds) = 1 THEN NO_SEEDS
  ELSE Undefined
SeedUndoTarget(appliedSeeds, name) ==
  IF Truthy(name)
  THEN LET namedSeed == Find(appliedSeeds, {s \in Range(appliedSeeds) : doesNameMatch(name.value, s)})
           namedSeedIdx == FindIndex(appliedSeeds, {namedSeed})
       IN IF ~Truthy(namedSeed) THEN Undefined
          ELSE IF namedSeedIdx = 0 THEN NO_SEEDS
          ELSE At(appliedSeeds, namedSeedIdx - 1)
  ELSE IF Len(appliedSeeds) > 1 THEN At(appliedSeeds, -2)
  ELSE IF Len(appliedSeeds) = 1 THEN NO_SEEDS
  ELSE Undefined

seedUndo(name, io) ==
  /\ Begin("db:seed:undo", name)
  /\ resolution' = NoResolution
  /\ migrateToCall' = NoCall
  /\ LET listed == getSeeds(1, io = "listRejects")
         target == SeedUndoTarget(listed.value.appliedSeeds, name)
     IN IF getSeeder.kind = "err" \/ listed.kind = "err"
        THEN exitFailure /\ seedToCall' = NoCall
        ELSE IF ~Truthy(target)
        THEN Terminate(0, "fail") /\ seedToCall' = NoCall
        ELSE /\ seedToCall' = Invoke(seedFiles, executedSeeds, TargetOf(target))
             /\ Await

seedUndoAll(io) ==
  /\ Begin("db:seed:undo:all", Undefined)
  /\ resolution' = NoResolution
  /\ migrateToCall' = NoCall
  /\ LET listed == getSeeds(1, io = "listRejects")
     IN IF getSeeder.kind = "err" \/ listed.kind = "err"
        THEN exitFailure /\ seedToCall' = NoCall
        ELSE IF Len(listed.value.appliedSeeds) = 0
        THEN Terminate(0, "fail") /\ seedToCall' = NoCall
        ELSE /\ seedToCall' = Invoke(seedFiles, executedSeeds, NO_SEEDS)
             /\ Await

\* ------------------------------------------------------------------------
\* A direct call of getTargetSeed (as the unit tests make it), with a
\* migration and a seed taken from an earlier listing
\* ------------------------------------------------------------------------
\* A migration object whose file is no longer in the folder
RemovedMigration ==
  [kind |-> "migration", name |-> GeneratedName(0, <<"z">>), executedAt |-> FALSE,
   timestamp |-> 0, label |-> <<"z">>, listing |-> 1]

MigrationArgs ==
  {Undefined, NO_MIGRATIONS, RemovedMigration}
    \cup Range(getMigrations(1, FALSE).value.allMigrations)

SeedArgs == {Undefined, NO_SEEDS} \cup Range(getSeeds(1, FALSE).value.allSeeds)

\* (_Applies: a resolver that goes on to seed to the target it found)
callGetTargetSeed_Applies(migration, seedArg, io) ==
  /\ Begin("getTargetSeed", Undefined)
  /\ resolution' = [called |-> TRUE, migration |-> migration, seed |-> seedArg,
                    io |-> io, result |-> getTargetSeed([migration |-> migration, seed |-> seedArg], 2, io)]
  /\ seedToCall' = IF resolution'.result.kind = "ok"
                   THEN Invoke(seedFiles, executedSeeds, TargetOf(resolution'.result.value))
                   ELSE NoCall
  /\ migrateToCall' = NoCall
  /\ Terminate(0, "none")
callGetTargetSeed(migration, seedArg, io) ==
  /\ Begin("getTargetSeed", Undefined)
  /\ resolution' = [called |-> TRUE, migration |-> migration, seed |-> seedArg,
                    io |-> io, result |-> getTargetSeed([migration |-> migration, seed |-> seedArg], 2, io)]
  /\ seedToCall' = NoCall
  /\ migrateToCall' = NoCall
  /\ Terminate(0, "none")

\* ------------------------------------------------------------------------
\* The runner calls in flight
\* ------------------------------------------------------------------------
SeedCommands == {"db:seed", "db:seed:undo", "db:seed:undo:all"}

\* The positions of purge and setup (misc.ts): the call the command is
\* suspended at.  At "purge:migrations" and "purge:drop" the seedTo call
\* that undoAll of the migrations started without awaiting it may be
\* pending.
MigrateToAwaited == {"purge:migrations", "setup:migrate"}
SeedToAwaited == {"purge:seeds", "setup:seed"}
SeedToDropped == {"purge:migrations", "purge:drop"}

Abandon(call) == IF call.status = "running" THEN [call EXCEPT !.status = "abandoned"] ELSE call

\* The migrator runs the next unit of its plan
MigratorRunsUnit ==
  /\ pc \in {"main"} \cup MigrateToAwaited
  /\ migrateToCall.status = "running"
  /\ migrateToCall.todo # <<>>
  /\ executedMigrations' = Run(executedMigrations, migrateToCall.direction,
                               Head(migrateToCall.todo))
  /\ migrateToCall' = [migrateToCall EXCEPT !.todo = Tail(@)]
  /\ UNCHANGED <<files, returned, observed, executedSeeds, pc, command, resolution, seedToCall, before,
                 report, exitCode>>

\* migrateTo resolves without error: the command reports success and returns;
\* the process lives on while the seedTo call it started is pending
MigrateToReturns ==
  /\ pc = "main"
  /\ migrateToCall.status = "running"
  /\ migrateToCall.todo = <<>>
  /\ migrateToCall' = [migrateToCall EXCEPT !.status = "ok"]
  /\ report' = "succeed"
  /\ pc' = IF seedToCall.status = "running" THEN "returned" ELSE "exited"
  /\ exitCode' = 0
  /\ UNCHANGED <<files, returned, observed, executedMigrations, executedSeeds, command, resolution,
                 seedToCall, before>>

\* The next unit fails (its result has status "Error"): migrateTo resolves
\* with an error and the command calls exitFailure
MigrateToFails ==
  /\ pc \in {"main"} \cup MigrateToAwaited
  /\ migrateToCall.status = "running"
  /\ migrateToCall.todo # <<>>
  /\ migrateToCall' = [migrateToCall EXCEPT !.status = "error"]
  /\ seedToCall' = Abandon(seedToCall)
  /\ pc' = "exited"
  /\ exitCode' = 1
  /\ UNCHANGED <<files, returned, observed, executedMigrations, executedSeeds, command, resolution,
                 before, report>>

\* The seeder runs the next unit of its plan
SeederRunsUnit ==
  /\ pc \in {"main", "returned"} \cup SeedToAwaited \cup SeedToDropped
  /\ seedToCall.status = "running"
  /\ seedToCall.todo # <<>>
  /\ executedSeeds' = Run(executedSeeds, seedToCall.direction, Head(seedToCall.todo))
  /\ seedToCall' = [seedToCall EXCEPT !.todo = Tail(@)]
  /\ UNCHANGED <<files, returned, observed, executedMigrations, pc, command, resolution, migrateToCall,
                 before, report, exitCode>>

\* seedTo resolves without error.  A seed command awaits it, reports success
\* and returns; in migration undo and undoAll only the dropped callback
\* resumes, and the process ends if the command has already returned.
SeedToReturns ==
  /\ pc \in {"main", "returned"} \cup SeedToDropped
  /\ seedToCall.status = "running"
  /\ seedToCall.todo = <<>>
  /\ seedToCall' = [seedToCall EXCEPT !.status = "ok"]
  /\ IF command.name \in SeedCommands
     THEN pc' = "exited" /\ report' = "succeed"
     ELSE pc' = (IF pc = "returned" THEN "exited" ELSE pc) /\ report' = report
  /\ exitCode' = 0
  /\ UNCHANGED <<files, returned, observed, executedMigrations, executedSeeds, command, resolution,
                 migrateToCall, before>>

\* The next unit fails (its result has status "Error"): seedTo resolves with
\* an error and its continuation calls exitFailure
\* (_Unreported: a continuation that ignores the error and reports success)
SeedToFails_Unreported ==
  /\ pc \in {"main", "returned"}
  /\ seedToCall.status = "running"
  /\ seedToCall.todo # <<>>
  /\ seedToCall' = [seedToCall EXCEPT !.status = "error"]
  /\ migrateToCall' = Abandon(migrateToCall)
  /\ pc' = "exited"
  /\ exitCode' = 0
  /\ report' = "succeed"
  /\ UNCHANGED <<files, returned, observed, executedMigrations, executedSeeds, command, resolution,
                 before>>
SeedToFails ==
  /\ pc \in {"main", "returned"} \cup SeedToAwaited \cup SeedToDropped
  /\ seedToCall.status = "running"
  /\ seedToCall.todo # <<>>
  /\ seedToCall' = [seedToCall EXCEPT !.status = "error"]
  /\ migrateToCall' = Abandon(migrateToCall)
  /\ pc' = "exited"
  /\ exitCode' = 1
  /\ UNCHANGED <<files, returned, observed, executedMigrations, executedSeeds, command, resolution,
                 before, report>>

\* ------------------------------------------------------------------------
\* misc.ts: purge and setup, each one CLI process that calls two command
\* functions in turn.  A command function that calls exitFailure ends the
\* process; one that reports on its feed and returns lets the next one run.
\* ------------------------------------------------------------------------
\* await undoAllMigrations(...): undoAll of migrate.ts as purge calls it
purgeUndoAllMigrations(io) ==
  LET listed == getMigrations(1, io = "listRejects")
  IN IF getMigrator.kind = "err" \/ listed.kind = "err"
     THEN exitFailure /\ resolution' = NoResolution
          /\ seedToCall' = NoCall /\ migrateToCall' = NoCall
     ELSE IF Len(listed.value.appliedMigrations) = 0
     THEN /\ AwaitAt("purge:drop")
          /\ resolution' = NoResolution
          /\ seedToCall' = NoCall /\ migrateToCall' = NoCall
     ELSE RollBackAt(NO_MIGRATIONS, io, "purge:migrations")

\* purge up to its first suspension at a runner call:
\* await undoAllSeeds(...), and undoAllMigrations when no seed is applied
purge(io, next) ==
  /\ Begin("db:purge", Undefined)
  /\ LET listed == getSeeds(1, io = "listRejects")
     IN IF getSeeder.kind = "err" \/ listed.kind = "err"
        THEN exitFailure /\ resolution' = NoResolution
             /\ seedToCall' = NoCall /\ migrateToCall' = NoCall
        ELSE IF Len(listed.value.appliedSeeds) = 0
        THEN purgeUndoAllMigrations(next)
        ELSE /\ seedToCall' = Invoke(seedFiles, executedSeeds, NO_SEEDS)
             /\ migrateToCall' = NoCall
             /\ resolution' = NoResolution
             /\ AwaitAt("purge:seeds")

\* seedTo(NO_SEEDS) of undoAllSeeds resolves without error: undoAllSeeds
\* returns and purge calls undoAllMigrations
PurgeSeedsUndone ==
  /\ pc = "purge:seeds"
  /\ seedToCall.status = "running"
  /\ seedToCall.todo = <<>>
  /\ \E io \in ReadOutcomes : purgeUndoAllMigrations(io)
  /\ UNCHANGED <<files, returned, observed, executedMigrations, executedSeeds, command, before>>

\* migrateTo(NO_MIGRATIONS) of undoAllMigrations resolves without error:
\* undoAllMigrations returns and purge goes on to drop the tables
PurgeMigrationsUndone ==
  /\ pc = "purge:migrations"
  /\ migrateToCall.status = "running"
  /\ migrateToCall.todo = <<>>
  /\ migrateToCall' = [migrateToCall EXCEPT !.status = "ok"]
  /\ AwaitAt("purge:drop")
  /\ UNCHANGED <<files, returned, observed, executedMigrations, executedSeeds, command, resolution,
                 seedToCall, before>>

\* purge drops the metadata tables, reports success and returns; the process
\* lives on while a seedTo call is pending
PurgeDropsTables ==
  /\ pc = "purge:drop"
  /\ executedSeeds' = {}
  /\ executedMigrations' = {}
  /\ report' = "succeed"
  /\ exitCode' = 0
  /\ pc' = IF seedToCall.status = "running" THEN "returned" ELSE "exited"
  /\ UNCHANGED <<files, returned, observed, command, resolution, seedToCall, migrateToCall, before>>

\* await seed(undefined, ...): seed of seed.ts as setup calls it
setupSeed(io) ==
  LET listed == getSeeds(1, io = "listRejects")
      res == getTargetSeed([migration |-> Undefined, seed |-> Undefined], 2, io)
  IN IF getSeeder.kind = "err" \/ listed.kind = "err"
     THEN exitFailure /\ resolution' = NoResolution /\ seedToCall' = NoCall
     ELSE /\ resolution' = [called |-> TRUE, migration |-> Undefined, seed |-> Undefined,
                            io |-> io, result |-> res]
          /\ IF res.kind # "ok"
             THEN exitFailure /\ seedToCall' = NoCall
             ELSE /\ seedToCall' = Invoke(seedFiles, executedSeeds, TargetOf(res.value))
                  /\ AwaitAt("setup:seed")

\* setup up to its first suspension at a runner call:
\* await migrate(undefined, ...), and seed when there is no migration
\* (_SeedsAtOnce: seed called without awaiting migrate)
setup_SeedsAtOnce(io, next) ==
  /\ Begin("db:setup", Undefined)
  /\ LET listed == getMigrations(1, io = "listRejects")
         migration == MigrateTarget(listed.value.allMigrations, Undefined)
     IN IF getMigrator.kind = "err" \/ listed.kind = "err"
        THEN exitFailure /\ resolution' = NoResolution
             /\ seedToCall' = NoCall /\ migrateToCall' = NoCall
        ELSE /\ migrateToCall' = IF Truthy(migration)
                                 THEN Invoke(migrationFiles, executedMigrations, TargetOf(migration))
                                 ELSE NoCall
             /\ setupSeed(next)
setup(io, next) ==
  /\ Begin("db:setup", Undefined)
  /\ LET listed == getMigrations(1, io = "listRejects")
         migration == MigrateTarget(listed.value.allMigrations, Undefined)
     IN IF getMigrator.kind = "err" \/ listed.kind = "err"
        THEN exitFailure /\ resolution' = NoResolution
             /\ seedToCall' = NoCall /\ migrateToCall' = NoCall
        ELSE IF ~Truthy(migration)
        THEN migrateToCall' = NoCall /\ setupSeed(next)
        ELSE /\ migrateToCall' = Invoke(migrationFiles, executedMigrations, TargetOf(migration))
             /\ seedToCall' = NoCall
             /\ resolution' = NoResolution
             /\ AwaitAt("setup:migrate")

\* migrateTo of migrate resolves without error: migrate returns and setup
\* calls seed
SetupMigrated ==
  /\ pc = "setup:migrate"
  /\ migrateToCall.status = "running"
  /\ migrateToCall.todo = <<>>
  /\ migrateToCall' = [migrateToCall EXCEPT !.status = "ok"]
  /\ \E io \in ReadOutcomes : setupSeed(io)
  /\ UNCHANGED <<files, returned, observed, executedMigrations, executedSeeds, command, before>>

\* seedTo of seed resolves without error: seed returns, setup reports
\* success and returns
SetupSeeded ==
  /\ pc = "setup:seed"
  /\ seedToCall.status = "running"
  /\ seedToCall.todo = <<>>
  /\ seedToCall' = [seedToCall EXCEPT !.status = "ok"]
  /\ Terminate(0, "succeed")
  /\ UNCHANGED <<files, returned, observed, executedMigrations, executedSeeds, command, resolution,
                 migrateToCall, before>>

\* cli.ts runs one command per process: nothing of an invocation but the two
\* tables outlives its process
NextInvocation ==
  /\ pc = "exited"
  /\ pc' = "idle"
  /\ command' = [name |-> "none", arg |-> Undefined]
  /\ resolution' = NoResolution
  /\ seedToCall' = NoCall
  /\ migrateToCall' = NoCall
  /\ before' = [migrations |-> executedMigrations, seeds |-> executedSeeds]
  /\ report' = "none"
  /\ exitCode' = 0
  /\ UNCHANGED <<files, returned, observed, executedMigrations, executedSeeds>>

\* ------------------------------------------------------------------------
\* Specification
\* ------------------------------------------------------------------------
RECURSIVE Generated(_)
Generated(timestamps) ==
  IF timestamps = {} THEN <<>>
  ELSE LET t == CHOOSE x \in timestamps : \A y \in timestamps : x <= y
       IN <<GeneratedName(t, LabelOf(t))>> \o Generated(timestamps \ {t})

Init ==
  /\ migrationsFolderExists \in BOOLEAN
  /\ seedsFolderExists \in BOOLEAN
  /\ \E T \in SUBSET Timestamps :
       /\ Cardinality(T) <= MaxMigrations
       /\ migrationsFolderExists \/ T = {}
       /\ migrationFiles = Generated(T)
  /\ \E T \in SUBSET Timestamps :
       /\ Cardinality(T) <= MaxSeeds
       /\ seedsFolderExists \/ T = {}
       /\ seedFiles = Generated(T)
  /\ executedMigrations = {}
  /\ executedSeeds = {}
  /\ pc = "idle"
  /\ command = [name |-> "none", arg |-> Undefined]
  /\ resolution = NoResolution
  /\ seedToCall = NoCall
  /\ migrateToCall = NoCall
  /\ before = [migrations |-> {}, seeds |-> {}]
  /\ report = "none"
  /\ exitCode = 0
  /\ returned = Undefined
  /\ observed = <<>>

MigrationNames ==
  {Undefined} \cup {NameArg(l) : l \in {<<"a">>, <<"b">>, <<"z">>}}
    \cup {NameArg(n) : n \in Range(migrationFiles)}

SeedNames ==
  {Undefined} \cup {NameArg(l) : l \in {<<"a">>, <<"b">>, <<"z">>}}
    \cup {NameArg(n) : n \in Range(seedFiles)}

Next ==
  \/ \E name \in MigrationNames, io \in ListOutcomes : migrate(name, io)
  \/ \E name \in MigrationNames, io \in ReadOutcomes : migrateUndo(name, io)
  \/ \E io \in ReadOutcomes : migrateUndoAll(io)
  \/ \E name \in SeedNames, io \in ReadOutcomes : seed(name, io)
  \/ \E name \in SeedNames, io \in ListOutcomes : seedUndo(name, io)
  \/ \E io \in ListOutcomes : seedUndoAll(io)
  \/ MigratorRunsUnit
  \/ MigrateToReturns
  \/ MigrateToFails
  \/ SeederRunsUnit
  \/ SeedToReturns
  \/ SeedToFails
  \/ NextInvocation

Spec == Init /\ [][Next]_vars

\* ------------------------------------------------------------------------
\* The resolver on its own: any files, any position of the two runners, and
\* direct calls of getTargetSeed
\* ------------------------------------------------------------------------
Prefixes(seq) == {Range(SubSeq(seq, 1, n)) : n \in 0..Len(seq)}

ResolverInit ==
  /\ migrationsFolderExists \in BOOLEAN
  /\ seedsFolderExists \in BOOLEAN
  /\ \E T \in SUBSET Timestamps :
       /\ Cardinality(T) <= MaxMigrations
       /\ migrationsFolderExists \/ T = {}
       /\ migrationFiles = Generated(T)
  /\ \E T \in SUBSET Timestamps :
       /\ Cardinality(T) <= MaxSeeds
       /\ seedsFolderExists \/ T = {}
       /\ seedFiles = Generated(T)
  /\ executedMigrations \in Prefixes(migrationFiles)
  /\ executedSeeds \in Prefixes(seedFiles)
  /\ pc = "idle"
  /\ command = [name |-> "none", arg |-> Undefined]
  /\ resolution = NoResolution
  /\ seedToCall = NoCall
  /\ migrateToCall = NoCall
  /\ before = [migrations |-> executedMigrations, seeds |-> executedSeeds]
  /\ report = "none"
  /\ exitCode = 0
  /\ returned = Undefined
  /\ observed = <<>>

ResolverNext ==
  \E migration \in MigrationArgs, seedArg \in SeedArgs, io \in ReadOutcomes \ {"listRejects"} :
    callGetTargetSeed(migration, seedArg, io)

ResolverSpec == ResolverInit /\ [][ResolverNext]_vars


\* ------------------------------------------------------------------------
\* purge and setup, each run once from any position of the two runners
\* ------------------------------------------------------------------------
MiscNext ==
  \/ \E io \in ListOutcomes, next \in ReadOutcomes : purge(io, next)
  \/ PurgeSeedsUndone
  \/ PurgeMigrationsUndone
  \/ PurgeDropsTables
  \/ \E io \in ListOutcomes, next \in ReadOutcomes : setup(io, next)
  \/ SetupMigrated
  \/ SetupSeeded
  \/ MigratorRunsUnit
  \/ MigrateToFails
  \/ SeederRunsUnit
  \/ SeedToReturns
  \/ SeedToFails

MiscSpec == ResolverInit /\ [][MiscNext]_vars

\* ------------------------------------------------------------------------
\* getNameParts and doesNameMatch on their own (as the unit tests call
\* them): any name of a migration or seed file, any query
\* ------------------------------------------------------------------------
NameChars == {"0", "1", "_", "a", "\n"}
Names == UNION {[1..n -> NameChars] : n \in 0..MaxNameLen}

\* A MigrationInfo / SeedInfo with the given name
InfoOf(kind, name) == [kind |-> kind, name |-> name]

\* The Migration / Seed that getMigrations / getSeeds build from an info
\* whose name parses: { ...info, ...getNameParts(info).value }
ArtifactOf(info) ==
  [kind |-> info.kind, name |-> info.name,
   timestamp |-> getNameParts(info).value.timestamp,
   label |-> getNameParts(info).value.label]

Infos == {InfoOf(kind, name) : kind \in {"migration", "seed"}, name \in Names}
Artifacts ==
  {ArtifactOf(info) :
     info \in {i \in Infos : i.kind = "migration" /\ getNameParts(i).kind = "ok"}}

NameInit ==
  /\ migrationsFolderExists = TRUE
  /\ seedsFolderExists = TRUE
  /\ migrationFiles = <<>>
  /\ seedFiles = <<>>
  /\ executedMigrations = {}
  /\ executedSeeds = {}
  /\ pc = "idle"
  /\ command = [name |-> "none", arg |-> Undefined]
  /\ resolution = NoResolution
  /\ seedToCall = NoCall
  /\ migrateToCall = NoCall
  /\ before = [migrations |-> {}, seeds |-> {}]
  /\ report = "none"
  /\ exitCode = 0
  /\ returned = Undefined
  /\ observed = <<>>

\* The call returns `result`
Returns(function, arg, result) ==
  /\ pc' = "exited"
  /\ command' = [name |-> function, arg |-> arg]
  /\ returned' = result
  /\ UNCHANGED <<files, observed, executedMigrations, executedSeeds, resolution, seedToCall,
                 migrateToCall, before, report, exitCode>>

callGetNameParts ==
  /\ pc = "idle"
  /\ \E item \in Infos : Returns("getNameParts", item, getNameParts(item))

callDoesNameMatch ==
  /\ pc = "idle"
  /\ \E name \in Names, item \in Artifacts :
       Returns("doesNameMatch", [name |-> name, item |-> item], doesNameMatch(name, item))

NameNext == callGetNameParts \/ callDoesNameMatch

NameSpec == NameInit /\ [][NameNext]_vars

\* ------------------------------------------------------------------------
\* getMigrations and getSeeds on their own: the files of a folder, some
\* with a name that does not parse, in the runner's order (by name); any of
\* them recorded in the runner's table
\* ------------------------------------------------------------------------
FolderNames ==
  <<GeneratedName(1, <<"a">>), <<"1", "a">>, GeneratedName(2, <<"b">>), <<"a">>>>

\* The files of a folder: some of FolderNames, in their order
Folders(max) ==
  {SelectSeq(FolderNames, LAMBDA n : n \in S) :
     S \in {T \in SUBSET Range(FolderNames) : Cardinality(T) <= max}}

ListInit ==
  /\ migrationsFolderExists = TRUE
  /\ seedsFolderExists = TRUE
  /\ migrationFiles \in Folders(MaxMigrations)
  /\ seedFiles \in Folders(MaxSeeds)
  /\ executedMigrations \in SUBSET Range(migrationFiles)
  /\ executedSeeds \in SUBSET Range(seedFiles)
  /\ pc = "idle"
  /\ command = [name |-> "none", arg |-> Undefined]
  /\ resolution = NoResolution
  /\ seedToCall = NoCall
  /\ migrateToCall = NoCall
  /\ before = [migrations |-> executedMigrations, seeds |-> executedSeeds]
  /\ report = "none"
  /\ exitCode = 0
  /\ returned = Undefined
  /\ observed = <<>>

callGetMigrations ==
  /\ pc = "idle"
  /\ \E rejects \in BOOLEAN :
       Returns("getMigrations", [rejects |-> rejects], getMigrations(1, rejects))

callGetSeeds ==
  /\ pc = "idle"
  /\ \E rejects \in BOOLEAN :
       Returns("getSeeds", [rejects |-> rejects], getSeeds(1, rejects))

ListNext == callGetMigrations \/ callGetSeeds

ListSpec == ListInit /\ [][ListNext]_vars

\* ------------------------------------------------------------------------
\* A sequence of db:migrate:undo invocations without a name, as the tests
\* of undo run them: from any position of the two runners, each invocation
\* followed by a read of the applied migrations; an invocation that exits
\* with a failure ends the sequence (.catch(exitFailure)).
\* ------------------------------------------------------------------------
MaxUndos == MaxMigrations + 2

UndoInit ==
  /\ migrationsFolderExists \in BOOLEAN
  /\ seedsFolderExists \in BOOLEAN
  /\ \E T \in SUBSET Timestamps :
       /\ Cardinality(T) <= MaxMigrations
       /\ migrationsFolderExists \/ T = {}
       /\ migrationFiles = Generated(T)
  /\ \E T \in SUBSET Timestamps :
       /\ Cardinality(T) <= MaxSeeds
       /\ seedsFolderExists \/ T = {}
       /\ seedFiles = Generated(T)
  /\ executedMigrations \in Prefixes(migrationFiles)
  /\ executedSeeds \in Prefixes(seedFiles)
  /\ pc = "idle"
  /\ command = [name |-> "none", arg |-> Undefined]
  /\ resolution = NoResolution
  /\ seedToCall = NoCall
  /\ migrateToCall = NoCall
  /\ before = [migrations |-> executedMigrations, seeds |-> executedSeeds]
  /\ report = "none"
  /\ exitCode = 0
  /\ returned = Undefined
  /\ observed = <<executedMigrations>>

\* await asyncExec(`node ${CLI_PATH} db:migrate:undo`)
undoWithoutName ==
  /\ Len(observed) <= MaxUndos
  /\ \E io \in ReadOutcomes : migrateUndo(Undefined, io)

\* The invocation has exited without failure: the test reads the applied
\* migrations and goes on to its next invocation
UndoObserved ==
  /\ pc = "exited"
  /\ exitCode = 0
  /\ observed' = Append(observed, executedMigrations)
  /\ pc' = "idle"
  /\ command' = [name |-> "none", arg |-> Undefined]
  /\ resolution' = NoResolution
  /\ seedToCall' = NoCall
  /\ migrateToCall' = NoCall
  /\ before' = [migrations |-> executedMigrations, seeds |-> executedSeeds]
  /\ report' = "none"
  /\ exitCode' = 0
  /\ UNCHANGED <<files, returned, executedMigrations, executedSeeds>>

UndoNext ==
  \/ undoWithoutName
  \/ UndoObserved
  \/ MigratorRunsUnit
  \/ MigrateToReturns
  \/ MigrateToFails
  \/ SeederRunsUnit
  \/ SeedToReturns
  \/ SeedToFails

UndoSpec == UndoInit /\ [][UndoNext]_vars

\* ------------------------------------------------------------------------
\* Properties
\* ------------------------------------------------------------------------
\* The timestamp a generated file name carries
StampOf(name) == CHOOSE t \in Timestamps : GeneratedName(t, LabelOf(t)) = name

Min(S) == CHOOSE x \in S : \A y \in S : x <= y

\* The timestamp of the file at position + 1 of the migration list (position
\* 0 is the place before the first migration), unbounded past the end
StampAfter(position) ==
  IF position < Len(migrationFiles) THEN StampOf(migrationFiles[position + 1])
  ELSE Infinity

PositionOf(name) == CHOOSE i \in 1..Len(migrationFiles) : migrationFiles[i] = name

\* The timestamp of the earliest migration that is not applied
EarliestUnappliedStamp ==
  LET unapplied == {StampOf(n) : n \in Range(migrationFiles) \ executedMigrations}
  IN IF unapplied = {} THEN Infinity ELSE Min(unapplied)

\* The name of the seed with the greatest timestamp at or below the ceiling
SeedsWithin(ceiling) == {n \in Range(seedFiles) : StampOf(n) <= ceiling}
GreatestSeedWithin(ceiling) ==
  CHOOSE n \in SeedsWithin(ceiling) : \A o \in SeedsWithin(ceiling) : StampOf(o) <= StampOf(n)

MigrationUndoCommands == {"db:migrate:undo", "db:migrate:undo:all"}

\* getTargetSeed was called, both folders exist and every read resolved
Resolved ==
  /\ resolution.called
  /\ resolution.io = "ok"
  /\ migrationsFolderExists
  /\ seedsFolderExists

IsListed(migration) ==
  /\ migration.kind = "migration"
  /\ migration.name \in Range(migrationFiles)

\* C1: in migration undo and undoAll, seedTo has completed before migrateTo
\* begins: migrateTo is never under way while seedTo is still running.
C1_SeedToCompletesBeforeMigrateTo ==
  command.name \in MigrationUndoCommands =>
    ~(seedToCall.status = "running" /\ migrateToCall.status # "idle")

\* C2: from an empty database, after any sequence of completed commands no
\* applied seed has a timestamp greater than the timestamp of the earliest
\* unapplied migration.
C2_NoSeedBeyondEarliestUnapplied ==
  pc \in {"idle", "exited"} =>
    \A n \in executedSeeds : StampOf(n) <= EarliestUnappliedStamp

\* C3: in migration undo and undoAll, if the seed rollback reports an error,
\* migrateTo is never invoked in that invocation and no migration is reverted.
C3_SeedErrorStopsMigrationRollback ==
  (command.name \in MigrationUndoCommands /\ seedToCall.status = "error") =>
    /\ migrateToCall.status = "idle"
    /\ executedMigrations = before.migrations

NothingWritten ==
  /\ seedToCall.status = "idle"
  /\ migrateToCall.status = "idle"
  /\ executedSeeds = before.seeds
  /\ executedMigrations = before.migrations

ResolutionFailed == resolution.called /\ resolution.result.kind # "ok"

IsConfigError(res) == res.kind = "err" /\ res.error.type = "ConfigError"

\* C4 as stated: whenever seed-target resolution fails in a command, no seed
\* or migration write has been issued in that invocation and both tables are
\* what they were before the command.
C4_FailedResolutionWritesNothing ==
  ResolutionFailed => NothingWritten

\* C4 as amended: whenever seed-target resolution fails with an error other
\* than a configuration error, nothing is written in that invocation; when it
\* fails with a configuration error (migration undo and undoAll without a
\* seeds folder) no seed write is issued, but the migration rollback runs.
C4_NonConfigFailureWritesNothing ==
  /\ (ResolutionFailed /\ ~IsConfigError(resolution.result)) => NothingWritten
  /\ (ResolutionFailed /\ IsConfigError(resolution.result)) =>
       /\ seedToCall.status = "idle"
       /\ executedSeeds = before.seeds

\* seed(name) was refused because the named seed exceeds the ceiling
C4_Witness ==
  /\ pc = "exited"
  /\ command.name = "db:seed"
  /\ resolution.result = Err("SeedError", "1d869e")
  /\ exitCode = 1
  /\ before.migrations # {}

\* Migration undo ended with exit code 0 after rolling back to a target
UndoSucceeded ==
  /\ pc = "exited"
  /\ command.name = "db:migrate:undo"
  /\ migrateToCall.status = "ok"
  /\ exitCode = 0

\* The timestamp of the migration right after the rollback target (the
\* earliest reverted migration)
StampAfterTarget(target) ==
  IF target.kind = "name" THEN StampAfter(PositionOf(target.name)) ELSE StampAfter(0)

\* C5: when migration undo with rollback target T succeeds, every previously
\* applied seed whose timestamp is greater than the timestamp of the
\* migration right after T is unapplied afterwards, and every previously
\* applied seed at or below it is still applied.
C5_UndoRevertsSeedsPastTarget ==
  UndoSucceeded =>
    \A n \in before.seeds :
      n \in executedSeeds <=> StampOf(n) <= StampAfterTarget(migrateToCall.target)

\* An undo to a concrete migration that reverted one seed and kept another
C5_Witness ==
  /\ UndoSucceeded
  /\ migrateToCall.target.kind = "name"
  /\ \E n \in before.seeds : n \notin executedSeeds
  /\ \E n \in before.seeds : n \in executedSeeds /\ StampOf(n) > StampOf(migrateToCall.target.name)

\* What a call that returns the requested seed iff it is within the ceiling,
\* and the SeedError with the given code otherwise, returns
SeedIfWithin(ceiling, traceId) ==
  IF resolution.seed.timestamp <= ceiling THEN Ok(resolution.seed)
  ELSE Err("SeedError", traceId)

\* What a call that picks the greatest seed within the ceiling returns: the
\* name of that seed, or the sentinel when no seed is within the ceiling
PicksGreatestWithin(ceiling) ==
  /\ resolution.result.kind = "ok"
  /\ IF SeedsWithin(ceiling) = {} THEN resolution.result.value = NO_SEEDS
     ELSE /\ resolution.result.value.kind = "seed"
          /\ resolution.result.value.name = GreatestSeedWithin(ceiling)

\* C6: getTargetSeed with no migration reference takes the timestamp of the
\* earliest unapplied migration as the ceiling (unbounded if none is
\* unapplied): a requested seed is returned iff its timestamp is <= the
\* ceiling, otherwise the call fails with SeedError 1d869e.
C6_AppliedStateCeiling ==
  (Resolved /\ resolution.migration = Undefined /\ resolution.seed.kind = "seed") =>
    resolution.result = SeedIfWithin(EarliestUnappliedStamp, "1d869e")

\* A seed refused although it is not past the last migration: the earliest
\* unapplied migration is neither the first nor missing
C6_Witness ==
  /\ Resolved
  /\ resolution.migration = Undefined
  /\ resolution.seed.kind = "seed"
  /\ resolution.result = Err("SeedError", "1d869e")
  /\ executedMigrations # {}
  /\ resolution.seed.timestamp < StampOf(migrationFiles[Len(migrationFiles)])

C8_LastMigrationUnbounded ==
  (/\ Resolved
   /\ IsListed(resolution.migration)
   /\ resolution.migration.name = migrationFiles[Len(migrationFiles)]
   /\ resolution.seed = Undefined) =>
    PicksGreatestWithin(Infinity)

\* C9: getTargetSeed with NoMigrations takes the timestamp of the first
\* migration as the ceiling (unbounded without migrations): a requested seed
\* is returned iff its timestamp is <= the ceiling, otherwise the call fails
\* with SeedError f56b28.
C9_NoMigrationsCeiling ==
  (Resolved /\ isNoMigrations(resolution.migration) /\ resolution.seed.kind = "seed") =>
    resolution.result = SeedIfWithin(StampAfter(0), "f56b28")

\* A seed past the first migration is refused although later migrations exist
C9_Witness ==
  /\ Resolved
  /\ isNoMigrations(resolution.migration)
  /\ resolution.seed.kind = "seed"
  /\ Len(migrationFiles) > 1
  /\ resolution.seed.timestamp < StampOf(migrationFiles[Len(migrationFiles)])
  /\ resolution.result = Err("SeedError", "f56b28")

\* The ceiling of the branch a call takes
BranchCeiling ==
  IF isNoMigrations(resolution.migration) THEN StampAfter(0)
  ELSE IF resolution.migration = Undefined THEN EarliestUnappliedStamp
  ELSE StampAfter(PositionOf(resolution.migration.name))

\* C10: in every branch of getTargetSeed, with no requested seed and the seed
\* list ascending, the result is the seed with the greatest timestamp among
\* the seeds at or below the branch's ceiling, and NoSeeds exactly when no
\* seed is at or below it.
C10_GreatestSeedWithinCeiling ==
  (/\ Resolved
   /\ resolution.seed = Undefined
   /\ resolution.migration.kind = "migration" => IsListed(resolution.migration)) =>
    PicksGreatestWithin(BranchCeiling)

\* getTargetSeed was called and both runners could be constructed (both
\* folders exist); the reads may resolve or reject
Constructed ==
  /\ resolution.called
  /\ migrationsFolderExists
  /\ seedsFolderExists

\* C11: getTargetSeed called with seed = NoSeeds returns ok(NoSeeds) for
\* every migration argument (concrete, NoMigrations or omitted) and every
\* state of the migration and seed lists.
C11_NoSeedsRequestedGivesNoSeeds ==
  (Constructed /\ isNoSeeds(resolution.seed)) => resolution.result = Ok(NO_SEEDS)

\* NoSeeds requested together with the last migration of a list that has
\* applied seeds
C11_Witness ==
  /\ Constructed
  /\ isNoSeeds(resolution.seed)
  /\ IsListed(resolution.migration)
  /\ resolution.migration.name = migrationFiles[Len(migrationFiles)]
  /\ executedSeeds # {}
  /\ resolution.result = Ok(NO_SEEDS)

\* What a result says, whichever listing built the object it carries
Content(res) ==
  IF res.kind = "ok" /\ res.value.kind = "seed"
  THEN Ok([res.value EXCEPT !.listing = 0])
  ELSE res

C13_NeverThrows ==
  (resolution.called /\ command.name = "getTargetSeed") =>
    resolution.result.kind \in {"ok", "err"}

\* The applied artifacts of a list at the start of the invocation, in the
\* order of the list
AppliedBefore(fileNames, executedBefore) ==
  SelectSeq(fileNames, LAMBDA n : n \in executedBefore)

\* The target that reverts exactly the last element of `applied`
TargetBeforeLast(applied, sentinel) ==
  IF Len(applied) > 1 THEN [kind |-> "name", name |-> applied[Len(applied) - 1]]
  ELSE sentinel

\* The command ended with exit code 0 after its runner call returned
Succeeded(cmd, call) ==
  /\ pc = "exited"
  /\ command.name = cmd
  /\ call.status = "ok"
  /\ exitCode = 0

\* C14: undo with no name, for migrations and for seeds, targets the
\* second-to-last applied artifact when more than one is applied and the
\* sentinel when exactly one is; once it has succeeded exactly the last
\* applied artifact is reverted and every other one is still applied.
C14_UndoWithoutNameRevertsLast ==
  LET migrations == AppliedBefore(migrationFiles, before.migrations)
      seeds == AppliedBefore(seedFiles, before.seeds)
  IN /\ (command.name = "db:migrate:undo" /\ command.arg = Undefined
           /\ migrateToCall.status # "idle") =>
          /\ migrateToCall.target = TargetBeforeLast(migrations, NO_MIGRATIONS)
          /\ Succeeded("db:migrate:undo", migrateToCall) =>
               executedMigrations = before.migrations \ {migrations[Len(migrations)]}
     /\ (command.name = "db:seed:undo" /\ command.arg = Undefined
           /\ seedToCall.status # "idle") =>
          /\ seedToCall.target = TargetBeforeLast(seeds, NO_SEEDS)
          /\ Succeeded("db:seed:undo", seedToCall) =>
               executedSeeds = before.seeds \ {seeds[Len(seeds)]}

\* Migration undo without a name succeeded where three migrations were applied
C14_Witness ==
  /\ Succeeded("db:migrate:undo", migrateToCall)
  /\ command.arg = Undefined
  /\ Cardinality(before.migrations) = 3
  /\ Cardinality(executedMigrations) = 2

\* The position in `applied` of the first artifact the name matches, 0 if
\* it matches none
MatchedPosition(applied, name) ==
  LET Matches(k) ==
        doesNameMatch(name.value, [timestamp |-> StampOf(applied[k]),
                                   label |-> LabelOf(StampOf(applied[k]))])
  IN IF \E k \in 1..Len(applied) : Matches(k)
     THEN CHOOSE k \in 1..Len(applied) : Matches(k) /\ \A l \in 1..(k - 1) : ~Matches(l)
     ELSE 0

\* The target that reverts the artifact at `position` and every later one
TargetBefore(applied, position, sentinel) ==
  IF position = 1 THEN sentinel
  ELSE [kind |-> "name", name |-> applied[position - 1]]

\* C15: undo(name) with a name that matches an applied artifact targets the
\* sentinel if the matched artifact is the earliest applied one and the
\* applied artifact right before it otherwise; once it has succeeded the
\* matched artifact and every later one are reverted and every earlier one
\* is still applied.
C15_UndoByNameRevertsFromMatch ==
  LET migrations == AppliedBefore(migrationFiles, before.migrations)
      seeds == AppliedBefore(seedFiles, before.seeds)
      m == MatchedPosition(migrations, command.arg)
      s == MatchedPosition(seeds, command.arg)
  IN /\ (command.name = "db:migrate:undo" /\ command.arg.kind = "string"
           /\ migrateToCall.status # "idle") =>
          /\ m > 0
          /\ migrateToCall.target = TargetBefore(migrations, m, NO_MIGRATIONS)
          /\ Succeeded("db:migrate:undo", migrateToCall) =>
               executedMigrations = {migrations[k] : k \in 1..(m - 1)}
     /\ (command.name = "db:seed:undo" /\ command.arg.kind = "string"
           /\ seedToCall.status # "idle") =>
          /\ s > 0
          /\ seedToCall.target = TargetBefore(seeds, s, NO_SEEDS)
          /\ Succeeded("db:seed:undo", seedToCall) =>
               executedSeeds = {seeds[k] : k \in 1..(s - 1)}

\* Migration undo by name succeeded: the name matched the second of three
\* applied migrations, and two were reverted
C15_Witness ==
  /\ Succeeded("db:migrate:undo", migrateToCall)
  /\ command.arg.kind = "string"
  /\ Cardinality(before.migrations) = 3
  /\ MatchedPosition(AppliedBefore(migrationFiles, before.migrations), command.arg) = 2
  /\ Cardinality(executedMigrations) = 1

UndoCommands == {"db:migrate:undo", "db:seed:undo"}

\* The applied artifacts undo looks the name up in
UndoCandidates ==
  IF command.name = "db:migrate:undo"
  THEN AppliedBefore(migrationFiles, before.migrations)
  ELSE AppliedBefore(seedFiles, before.seeds)

\* undo(name) has ended and the name matches no applied artifact
UndoNameNotFound ==
  /\ pc = "exited"
  /\ command.name \in UndoCommands
  /\ command.arg.kind = "string"
  /\ MatchedPosition(UndoCandidates, command.arg) = 0

\* C16: undo(name) with a name that matches no applied artifact (a name
\* that matches only an unapplied artifact included) is reported as a
\* failure to find the target and issues no runner write: the applied
\* migrations and seeds are unchanged.  (A command that could not list its
\* artifacts has ended with exit code 1 before looking the name up.)
C16_UndoUnknownNameFails ==
  UndoNameNotFound =>
    /\ NothingWritten
    /\ report = "fail" \/ (exitCode = 1 /\ report = "none")

\* Migration undo named an unapplied migration while another one is applied
C16_Witness ==
  /\ UndoNameNotFound
  /\ command.name = "db:migrate:undo"
  /\ command.arg.value \in Range(migrationFiles) \ before.migrations
  /\ before.migrations # {}
  /\ report = "fail"

\* undo without a name has ended, could list its artifacts, and none was
\* applied
UndoNothingApplied ==
  /\ pc = "exited"
  /\ command.name \in UndoCommands
  /\ command.arg = Undefined
  /\ exitCode = 0
  /\ Len(UndoCandidates) = 0

\* C17: undo with no name when zero artifacts are applied is reported as a
\* success, not a failure, and issues no runner write, for migrations and
\* for seeds alike.
C17_UndoNothingAppliedSucceeds ==
  UndoNothingApplied => (report = "succeed" /\ NothingWritten)

\* The rollback target undo(name) chooses in the current state
UndoTargetNow(name) ==
  MigrationUndoTarget(getMigrations(1, FALSE).value.appliedMigrations, name)

\* A CLI process starts running the command
Starts(cmd) == pc = "idle" /\ command'.name = cmd

\* C18: in every database state, migration undoAll does what migration
\* undo does with the sentinel as its rollback target: every step that starts
\* undoAll is, but for the name of the command, a step of undo continuing
\* with the sentinel (same exit or report, same seed-target resolution, same
\* runner calls), so both have the same outcome and leave the same applied
\* migrations and seeds.
C18_UndoAllIsUndoToSentinel ==
  [][Starts("db:migrate:undo:all") =>
       \E io \in ReadOutcomes : migrateUndoWith(NO_MIGRATIONS, Undefined, io)]_vars

\* C18, on the database states with an applied migration: undoAll and the
\* undo whose rollback target is the sentinel take the same steps, each way
C18_UndoAllIsUndoToSentinelWhenApplied ==
  [][/\ (Starts("db:migrate:undo:all") /\ executedMigrations # {}) =>
          \E name \in MigrationNames, io \in ReadOutcomes :
             /\ UndoTargetNow(name) = NO_MIGRATIONS
             /\ migrateUndoBody(name, io)
     /\ (Starts("db:migrate:undo") /\ UndoTargetNow(command'.arg) = NO_MIGRATIONS) =>
          \E io \in ReadOutcomes : migrateUndoAllBody(io)]_vars

\* undoAll succeeded on a database with applied migrations and applied
\* seeds, and reverted seeds
C18_Witness ==
  /\ Succeeded("db:migrate:undo:all", migrateToCall)
  /\ before.migrations # {}
  /\ executedSeeds # before.seeds

\* C19: after migration undoAll has succeeded no migration is applied, and
\* no seed with a timestamp greater than the first migration's is applied.
C19_UndoAllRevertsEverything ==
  Succeeded("db:migrate:undo:all", migrateToCall) =>
    /\ executedMigrations = {}
    /\ \A n \in executedSeeds : StampOf(n) <= StampAfter(0)

\* undoAll succeeded, reverting a seed later than the first migration and
\* keeping a seed that is not
C19_Witness ==
  /\ Succeeded("db:migrate:undo:all", migrateToCall)
  /\ before.migrations # {}
  /\ \E n \in before.seeds : StampOf(n) > StampAfter(0) /\ n \notin executedSeeds
  /\ executedSeeds # {}

\* The position among all migrations of the target migrate resolves: the
\* first migration the name matches (0 if it matches none), the last
\* migration when no name is given
MigratePosition ==
  IF Truthy(command.arg) THEN MatchedPosition(migrationFiles, command.arg)
  ELSE Len(migrationFiles)

\* C20: migrate hands the runner the first migration matching the given
\* name, or the last migration when no name is given, and calls the runner
\* only if there is one; once it has succeeded from a state where no
\* migration after the target was applied, the applied migrations are exactly
\* those up to and including the target.
C20_MigrateAppliesUpToTarget ==
  (command.name = "db:migrate" /\ migrateToCall.status # "idle") =>
    /\ MigratePosition > 0
    /\ migrateToCall.target = [kind |-> "name", name |-> migrationFiles[MigratePosition]]
    /\ ( /\ Succeeded("db:migrate", migrateToCall)
         /\ \A k \in (MigratePosition + 1)..Len(migrationFiles) :
              migrationFiles[k] \notin before.migrations )
       => executedMigrations = {migrationFiles[k] : k \in 1..MigratePosition}

\* migrate with a name that matches two migrations succeeded and applied
\* the migrations up to the first of them, with a later one left unapplied
C20_Witness ==
  /\ Succeeded("db:migrate", migrateToCall)
  /\ Truthy(command.arg)
  /\ MigratePosition > 1
  /\ \E k \in (MigratePosition + 1)..Len(migrationFiles) :
       MatchedPosition(<<migrationFiles[k]>>, command.arg) = 1
  /\ executedMigrations # before.migrations
  /\ executedMigrations # Range(migrationFiles)

\* The artifacts the target of an apply command is looked up among
ApplyCandidates == IF command.name = "db:migrate" THEN migrationFiles ELSE seedFiles

\* migrate(name) or seed(name) has ended and the name matches no artifact
ApplyNameNotFound ==
  /\ pc = "exited"
  /\ command.name \in {"db:migrate", "db:seed"}
  /\ command.arg.kind = "string"
  /\ MatchedPosition(ApplyCandidates, command.arg) = 0

C21_WitnessSeed ==
  /\ ApplyNameNotFound
  /\ command.name = "db:seed"
  /\ exitCode = 1
  /\ seedsFolderExists
  /\ Range(seedFiles) \ executedSeeds # {}

\* The result of a runner call of this invocation holds a unit with status
\* "Error"
UnitFailed == migrateToCall.status = "error" \/ seedToCall.status = "error"

\* C22: whenever the result of a runner call holds a unit with status
\* "Error", the command (migrate, seed, and the undo and undoAll of both)
\* reports the overall failure: the process has ended with exit code 1.
C22_UnitErrorReportsFailure ==
  UnitFailed => (pc = "exited" /\ exitCode = 1)

\* migrate applied one migration and failed on the next
C22_Witness ==
  /\ command.name = "db:migrate"
  /\ migrateToCall.status = "error"
  /\ executedMigrations # before.migrations
  /\ exitCode = 1

\* C23: after seed with no name has succeeded, the applied seeds are exactly
\* the seeds whose timestamp is at most the timestamp of the earliest
\* unapplied migration: every seed when every migration is applied, the
\* seeds at or before the first migration's timestamp when none is.
C23_SeedAppliesUpToCeiling ==
  (Succeeded("db:seed", seedToCall) /\ command.arg = Undefined) =>
    /\ executedSeeds = SeedsWithin(EarliestUnappliedStamp)
    /\ executedMigrations = before.migrations

\* seed with no name succeeded with a migration applied and another not,
\* applied a seed and left a later seed unapplied
C23_Witness ==
  /\ Succeeded("db:seed", seedToCall)
  /\ command.arg = Undefined
  /\ executedMigrations # {}
  /\ Range(migrationFiles) \ executedMigrations # {}
  /\ executedSeeds # before.seeds
  /\ Range(seedFiles) \ executedSeeds # {}

\* seed with no name succeeded with every migration applied and more than
\* one seed to apply
C23_WitnessAll ==
  /\ Succeeded("db:seed", seedToCall)
  /\ command.arg = Undefined
  /\ executedMigrations = Range(migrationFiles)
  /\ before.seeds = {}
  /\ Cardinality(executedSeeds) > 1

\* purge is about to drop the metadata tables: undoAll of the seeds and
\* undoAll of the migrations have returned
PurgeCompleting == command.name = "db:purge" /\ pc = "purge:drop"

\* C24: purge runs seed undoAll to completion, then migration undoAll to
\* completion, then drops the metadata tables; when the two have returned
\* every seed and every migration that was applied is reverted and purge
\* has run no up action: no seed and no migration is applied.  (Seed undoAll
\* returns with no seed applied, so a seed that is applied afterwards was
\* applied by purge.)
C24_PurgeRevertsEverything ==
  PurgeCompleting => (executedSeeds = {} /\ executedMigrations = {})

\* C24, the migrations alone: when the two have returned no migration is
\* applied
C24_PurgeRevertsMigrations == PurgeCompleting => executedMigrations = {}

\* C24, the order of the two: while seed undoAll is awaited no migration
\* has been reverted and no migrateTo call has been made
C24_SeedsBeforeMigrations ==
  pc = "purge:seeds" =>
    (migrateToCall.status = "idle" /\ executedMigrations = before.migrations)

\* purge reverted applied seeds and applied migrations
C24_Witness ==
  /\ PurgeCompleting
  /\ before.seeds # {}
  /\ before.migrations # {}
  /\ executedSeeds = {}
  /\ executedMigrations = {}

\* The seed a result names (or the sentinel), or the error it is
Chosen(res) == IF res.kind = "ok" THEN TargetOf(res.value) ELSE res

\* C25: setup runs migrate to completion before seed starts: while migrate
\* is awaited no seed target is resolved and no seed is touched; the target
\* seed resolves is the one getTargetSeed gives in the state migrate left;
\* and once setup has succeeded with at least one migration and one seed
\* defined, every migration and every seed is applied.
C25_SetupMigratesThenSeeds ==
  command.name = "db:setup" =>
    /\ pc = "setup:migrate" =>
         /\ ~resolution.called
         /\ seedToCall.status = "idle"
         /\ executedSeeds = before.seeds
    /\ resolution.called =>
         /\ migrateToCall.status \in {"ok", "idle"}
         /\ Chosen(getTargetSeed([migration |-> Undefined, seed |-> Undefined],
                                 3, resolution.io)) = Chosen(resolution.result)
    /\ (Succeeded("db:setup", seedToCall) /\ migrationFiles # <<>> /\ seedFiles # <<>>) =>
         /\ executedMigrations = Range(migrationFiles)
         /\ executedSeeds = Range(seedFiles)

\* setup succeeded on a database with pending migrations and pending seeds,
\* one of them later than the first pending migration
C25_Witness ==
  /\ Succeeded("db:setup", seedToCall)
  /\ migrateToCall.status = "ok"
  /\ before.migrations # Range(migrationFiles)
  /\ \E n \in Range(seedFiles) \ before.seeds :
       \E m \in Range(migrationFiles) \ before.migrations : StampOf(n) > StampOf(m)
  /\ executedSeeds = Range(seedFiles)

\* The timestamps whose generated names fit into MaxNameLen characters
RECURSIVE Pow10(_)
Pow10(n) == IF n = 0 THEN 1 ELSE 10 * Pow10(n - 1)
NameStamps == 0..(Pow10(MaxNameLen - 2) - 1)

\* The non-empty labels
NameLabels == Names \ {<<>>}

\* getNameParts was called with the name generate writes for the timestamp
\* and the label
CalledOnGenerated(timestamp, label) ==
  /\ command.name = "getNameParts"
  /\ command.arg.name = GeneratedName(timestamp, label)

\* C26: for every non-negative integer timestamp and every non-empty label,
\* getNameParts of the name `<timestamp>_<label>` returns ok with exactly
\* that timestamp and that label.
C26_GeneratedNameRoundTrips ==
  \A timestamp \in NameStamps, label \in NameLabels :
    CalledOnGenerated(timestamp, label) =>
      returned = Ok([timestamp |-> timestamp, label |-> label])

\* C26, for the labels without a line terminator: the round trip holds
C26_OneLineNameRoundTrips ==
  \A timestamp \in NameStamps, label \in NameLabels :
    (CalledOnGenerated(timestamp, label) /\ UpToLineTerminator(label) = label) =>
      returned = Ok([timestamp |-> timestamp, label |-> label])

\* getNameParts returned the parts of a generated name with a two-digit
\* timestamp
C26_Witness ==
  /\ CalledOnGenerated(10, <<"a">>)
  /\ returned = Ok([timestamp |-> 10, label |-> <<"a">>])

\* The error type that tags an artifact kind
ErrorTypeOf(kind) == IF kind = "migration" THEN "MigrationError" ELSE "SeedError"

\* The two errors of getNameParts, for an artifact kind
TimestampError(kind) ==
  NameError(ErrorTypeOf(kind), IF kind = "migration" THEN "b5ad2d" ELSE "20f040",
            command.arg.name)
LabelError(kind) ==
  NameError(ErrorTypeOf(kind), IF kind = "migration" THEN "2a7630" ELSE "7dd89b",
            command.arg.name)

\* getNameParts was called on a name without digits at its start
CalledWithoutTimestamp ==
  /\ command.name = "getNameParts"
  /\ LeadingDigits(command.arg.name) = <<>>

\* getNameParts was called on a name that is digits, an underscore and
\* nothing else
CalledWithoutLabel ==
  /\ command.name = "getNameParts"
  /\ LeadingDigits(command.arg.name) # <<>>
  /\ command.arg.name = LeadingDigits(command.arg.name) \o <<"_">>

\* C27: getNameParts fails with the timestamp error on a name without
\* leading digits, and with the distinct label error on a name that is
\* digits followed by an underscore and an empty label; each error carries
\* the type of the artifact kind.
C27_NamePartErrors ==
  /\ CalledWithoutTimestamp => returned = TimestampError(command.arg.kind)
  /\ CalledWithoutLabel => returned = LabelError(command.arg.kind)

\* C27, the part about the timestamp alone
C27_MissingTimestampError ==
  CalledWithoutTimestamp => returned = TimestampError(command.arg.kind)

\* C27, what the code does for the empty label: both malformed names fail,
\* with an error of the type of the artifact kind
C27_MalformedNameFails ==
  (CalledWithoutTimestamp \/ CalledWithoutLabel) =>
    /\ returned.kind = "err"
    /\ returned.error.type = ErrorTypeOf(command.arg.kind)

\* getNameParts was called on a seed named digits and an underscore
C27_Witness ==
  /\ CalledWithoutLabel
  /\ command.arg.kind = "seed"
  /\ returned.kind = "err"

\* doesNameMatch was called
Matched == command.name = "doesNameMatch"

\* The digits at the start of the query and what follows their underscore
QueryDigits == LeadingDigits(command.arg.name)
QueryLabel ==
  SubSeq(command.arg.name, Len(QueryDigits) + 2, Len(command.arg.name))

\* The query is a numeric prefix, an underscore and a label
PrefixedQuery ==
  /\ Matched
  /\ QueryDigits # <<>>
  /\ Len(command.arg.name) >= Len(QueryDigits) + 2
  /\ command.arg.name[Len(QueryDigits) + 1] = "_"

\* The query is on one line
OneLineQuery == UpToLineTerminator(command.arg.name) = command.arg.name

\* The digits are the trailing digits of the item's timestamp
IsTimestampSuffix(digits, timestamp) ==
  LET item_ts == NumberToString(timestamp)
  IN /\ Len(digits) <= Len(item_ts)
     /\ digits = SubSeq(item_ts, Len(item_ts) - Len(digits) + 1, Len(item_ts))

\* C28: for a query with a numeric prefix and a label, doesNameMatch returns
\* true iff the label equals the item's label exactly and the query's digits
\* are the trailing digits of the item's timestamp (false when the prefix is
\* longer than the timestamp or an aligned digit differs).
C28_PrefixedQueryMatches ==
  PrefixedQuery =>
    (returned <=> /\ QueryLabel = command.arg.item.label
                  /\ IsTimestampSuffix(QueryDigits, command.arg.item.timestamp))

\* C28, for the queries on one line
C28_OneLinePrefixedQueryMatches ==
  (PrefixedQuery /\ OneLineQuery) =>
    (returned <=> /\ QueryLabel = command.arg.item.label
                  /\ IsTimestampSuffix(QueryDigits, command.arg.item.timestamp))

\* A query with the last digit of a two-digit timestamp matched
C28_Witness ==
  /\ PrefixedQuery
  /\ returned = TRUE
  /\ Len(QueryDigits) = 1
  /\ command.arg.item.timestamp >= 10

\* A query with the right label and a prefix longer than the item's
\* timestamp did not match
C28_WitnessLonger ==
  /\ PrefixedQuery
  /\ returned = FALSE
  /\ QueryLabel = command.arg.item.label
  /\ Len(QueryDigits) > Len(NumberToString(command.arg.item.timestamp))

\* The query has only a label: it does not start with digits (or nothing)
\* followed by an underscore
LabelOnlyQuery ==
  /\ Matched
  /\ command.arg.name # <<>>
  /\ ~ /\ Len(command.arg.name) >= Len(QueryDigits) + 1
       /\ command.arg.name[Len(QueryDigits) + 1] = "_"

\* C29: a query that is exactly the artifact's label, with no timestamp
\* prefix, matches the artifact whatever its timestamp, and a label-only
\* query matches no artifact whose label differs from it.
C29_LabelOnlyQueryMatchesLabel ==
  LabelOnlyQuery => (returned <=> command.arg.name = command.arg.item.label)

\* C29, for the queries on one line
C29_OneLineLabelOnlyQueryMatchesLabel ==
  (LabelOnlyQuery /\ OneLineQuery) =>
    (returned <=> command.arg.name = command.arg.item.label)

\* C29, the first half: the artifact's own label matches it
C29_OwnLabelMatches ==
  (LabelOnlyQuery /\ command.arg.name = command.arg.item.label) => returned = TRUE

\* The label of an artifact with a two-digit timestamp matched it
C29_Witness ==
  /\ LabelOnlyQuery
  /\ command.arg.name = command.arg.item.label
  /\ command.arg.item.timestamp >= 10
  /\ returned = TRUE

\* A label-only query did not match an artifact with another label
C29_WitnessOther ==
  /\ LabelOnlyQuery
  /\ OneLineQuery
  /\ command.arg.name # command.arg.item.label
  /\ returned = FALSE

\* The query is the full name of the item
FullNameQuery == Matched /\ command.arg.name = command.arg.item.name

\* The name is the one generate writes for its timestamp and label (the
\* timestamp without leading zeros)
IsGenerated(item) == item.name = GeneratedName(item.timestamp, item.label)

\* C30: for every artifact whose name parses, the query equal to the
\* artifact's full name matches the artifact.
C30_FullNameMatches == FullNameQuery => returned = TRUE

\* C30, for the artifacts named as generate names them
C30_GeneratedFullNameMatches ==
  (FullNameQuery /\ IsGenerated(command.arg.item)) => returned = TRUE

\* The full name of an artifact with a two-digit timestamp and an underscore
\* in its label matched
C30_Witness ==
  /\ FullNameQuery
  /\ command.arg.item.timestamp >= 10
  /\ returned = TRUE

\* The query is empty
EmptyQuery == Matched /\ command.arg.name = <<>>

\* The query is a numeric prefix and an underscore with nothing after it
EmptyLabelQuery ==
  /\ Matched
  /\ QueryDigits # <<>>
  /\ command.arg.name = QueryDigits \o <<"_">>

\* The query begins with an underscore
LeadingUnderscoreQuery ==
  /\ Matched
  /\ command.arg.name # <<>>
  /\ command.arg.name[1] = "_"

\* C31: doesNameMatch returns false for every item, without throwing, when
\* the query is empty, is a numeric prefix followed by an underscore and an
\* empty label, or begins with an underscore.
C31_MalformedQueryNeverMatches ==
  (EmptyQuery \/ EmptyLabelQuery \/ LeadingUnderscoreQuery) => returned = FALSE

\* C31, for the empty query and the query with an empty label
C31_EmptyOrEmptyLabelNeverMatches ==
  (EmptyQuery \/ EmptyLabelQuery) => returned = FALSE

\* C31: every call returns a boolean
C31_MatchIsTotal == Matched => returned \in BOOLEAN

\* A query that begins with an underscore matches exactly the items whose
\* label is the first line of what follows the underscore
C31_LeadingUnderscoreMatchesLabel ==
  LeadingUnderscoreQuery =>
    (returned <=>
       LET rest == UpToLineTerminator(SubSeq(command.arg.name, 2, Len(command.arg.name)))
       IN rest # <<>> /\ rest = command.arg.item.label)

\* A query with a numeric prefix and an empty label did not match
C31_Witness == EmptyLabelQuery /\ returned = FALSE

\* A query that begins with an underscore matched
C31_WitnessUnderscore == LeadingUnderscoreQuery /\ returned = TRUE

\* The applied migrations read so far in the sequence, the invocation that
\* has just exited without failure included
Observations ==
  IF pc = "exited" /\ exitCode = 0 /\ command.name = "db:migrate:undo"
  THEN Append(observed, executedMigrations) ELSE observed

\* The first n migrations of the runner's list
FirstMigrations(n) == Range(SubSeq(migrationFiles, 1, n))

\* The invocation began with no migration applied and exited without failure
FurtherUndo ==
  /\ command.name = "db:migrate:undo"
  /\ command.arg = Undefined
  /\ pc = "exited"
  /\ exitCode = 0
  /\ before.migrations = {}

\* C32: from a state with n applied migrations, after k consecutive
\* invocations of migration undo without a name the first n - k migrations
\* are applied (each invocation reverts exactly one migration, the last
\* applied, and after n invocations none is applied), and every further
\* invocation changes nothing and reports that there are no migrations to
\* roll back.
C32_RepeatedUndoRevertsOneEach ==
  /\ \A k \in 0..(Len(Observations) - 1) :
       LET n == Cardinality(Observations[1])
       IN Observations[k + 1] = FirstMigrations(IF k <= n THEN n - k ELSE 0)
  /\ FurtherUndo => /\ NothingWritten
                    /\ report = "succeed"
                    /\ ~resolution.called
                    /\ seedToCall = NoCall
                    /\ migrateToCall = NoCall

\* Every migration was applied at the start, each invocation reverted one,
\* and two more invocations found nothing to roll back
C32_Witness ==
  /\ Cardinality(observed[1]) = MaxMigrations
  /\ Len(observed) = MaxMigrations + 2
  /\ observed[MaxMigrations] # {}
  /\ FurtherUndo
  /\ seedFiles # <<>>

\* getMigrations or getSeeds was called and the runner's listing resolved
Listed == command.name \in {"getMigrations", "getSeeds"} /\ ~command.arg.rejects

\* The runner's items of the call
RunnerItems ==
  IF command.name = "getMigrations" THEN MigratorGetMigrations ELSE SeederGetSeeds

\* The three lists of the result
ListOfAll ==
  IF command.name = "getMigrations" THEN returned.value.allMigrations
  ELSE returned.value.allSeeds
ListOfApplied ==
  IF command.name = "getMigrations" THEN returned.value.appliedMigrations
  ELSE returned.value.appliedSeeds
ListOfUnapplied ==
  IF command.name = "getMigrations" THEN returned.value.unappliedMigrations
  ELSE returned.value.unappliedSeeds

\* The positions of the runner's items whose name does not parse
Unparsed ==
  {i \in 1..Len(RunnerItems) : getNameParts(RunnerItems[i]).kind = "err"}

\* sub is seq without some of its elements, the others in seq's order (the
\* elements of seq are distinct)
IsSubsequence(sub, seq) == sub = SelectSeq(seq, LAMBDA x : x \in Range(sub))

\* C33: on success getMigrations and getSeeds return lists in which 'all'
\* has the runner's items in the runner's order, and 'applied' and
\* 'unapplied' are disjoint subsequences of 'all' that together contain
\* every item; if the name of any item does not parse, the result is the
\* error of the first such item and no lists are returned.
C33_ListsPartitionRunnerItems ==
  Listed =>
    IF Unparsed = {}
    THEN /\ returned.kind = "ok"
         /\ Len(ListOfAll) = Len(RunnerItems)
         /\ \A i \in 1..Len(RunnerItems) :
              /\ ListOfAll[i].name = RunnerItems[i].name
              /\ ListOfAll[i].executedAt = RunnerItems[i].executedAt
              /\ Ok([timestamp |-> ListOfAll[i].timestamp, label |-> ListOfAll[i].label])
                   = getNameParts(RunnerItems[i])
         /\ IsSubsequence(ListOfApplied, ListOfAll)
         /\ IsSubsequence(ListOfUnapplied, ListOfAll)
         /\ Range(ListOfApplied) \cap Range(ListOfUnapplied) = {}
         /\ Range(ListOfApplied) \cup Range(ListOfUnapplied) = Range(ListOfAll)
         /\ \A it \in Range(ListOfApplied) : it.executedAt
         /\ \A it \in Range(ListOfUnapplied) : ~it.executedAt
    ELSE /\ returned.kind = "err"
         /\ returned = getNameParts(RunnerItems[Min(Unparsed)])
         /\ "value" \notin DOMAIN returned

\* Two items listed, one applied and one not
C33_Witness ==
  /\ Listed
  /\ Unparsed = {}
  /\ Len(ListOfApplied) = 1
  /\ Len(ListOfUnapplied) = 1
  /\ ListOfApplied[1] = ListOfAll[2]

\* Two names of the listing do not parse and the error is that of the first
C33_WitnessError ==
  /\ Listed
  /\ Cardinality(Unparsed) = 2
  /\ Min(Unparsed) > 1
  /\ returned.kind = "err"
  /\ returned.error.name = RunnerItems[Min(Unparsed)].name

\* C34: migration undo and undoAll never apply a seed: every seed that is
\* applied after the command was already applied before it.
C34_MigrationUndoNeverAppliesSeed ==
  command.name \in MigrationUndoCommands => executedSeeds \subseteq before.seeds

\* C34, when the seed target resolved is one of the applied seeds (or the
\* sentinel, or none)
C34_AppliedTargetNeverAppliesSeed ==
  (/\ command.name \in MigrationUndoCommands
   /\ seedToCall.target.kind = "name" => seedToCall.target.name \in before.seeds)
    => executedSeeds \subseteq before.seeds

\* A migration undo rolled a seed back and applied none
C34_Witness ==
  /\ command.name \in MigrationUndoCommands
  /\ pc = "exited"
  /\ exitCode = 0
  /\ seedToCall.status = "ok"
  /\ seedToCall.target.kind = "name"
  /\ executedSeeds # before.seeds
  /\ executedSeeds \subseteq before.seeds

\* A migration undo has applied a seed that was pending
C34_WitnessApplied ==
  /\ command.name = "db:migrate:undo"
  /\ pc = "exited"
  /\ exitCode = 0
  /\ ~(executedSeeds \subseteq before.seeds)

\* C35: migrate never reverts a migration: every migration that was applied
\* before migrate(name) is still applied after it, for every name, including
\* a name that resolves to a migration earlier than the last applied one.
C35_MigrateNeverReverts ==
  command.name = "db:migrate" => before.migrations \subseteq executedMigrations

\* C35, for the targets that have no applied migration after them (every
\* call without a name among them)
C35_MigrateForwardNeverReverts ==
  (/\ command.name = "db:migrate"
   /\ migrateToCall.status # "idle"
      => \A k \in (MigratePosition + 1)..Len(migrationFiles) :
            migrationFiles[k] \notin before.migrations)
    => before.migrations \subseteq executedMigrations

\* migrate without a name applied the pending migrations and kept the
\* applied ones
C35_Witness ==
  /\ Succeeded("db:migrate", migrateToCall)
  /\ command.arg = Undefined
  /\ before.migrations # {}
  /\ before.migrations \subseteq executedMigrations
  /\ executedMigrations # before.migrations

\* migrate with the name of an earlier migration reverted an applied one
C35_WitnessReverted ==
  /\ Succeeded("db:migrate", migrateToCall)
  /\ Truthy(command.arg)
  /\ ~(before.migrations \subseteq executedMigrations)

\* C36: seed never reverts a seed: every seed that was applied before
\* seed(name) is still applied after it, for every name, including a name
\* that resolves to a seed earlier than the last applied one.
C36_SeedNeverReverts ==
  command.name = "db:seed" => before.seeds \subseteq executedSeeds

\* C36, for the calls that end before seedTo and those whose resolved target
\* is a seed with no applied seed after it
C36_SeedForwardNeverReverts ==
  (/\ command.name = "db:seed"
   /\ \/ seedToCall.status = "idle"
      \/ /\ seedToCall.target.kind = "name"
         /\ \A k \in (IndexOf(seedFiles, seedToCall.target.name) + 1)..Len(seedFiles) :
              seedFiles[k] \notin before.seeds)
    => before.seeds \subseteq executedSeeds

\* seed without a name applied a pending seed and kept the applied ones
C36_Witness ==
  /\ Succeeded("db:seed", seedToCall)
  /\ command.arg = Undefined
  /\ before.seeds # {}
  /\ before.seeds \subseteq executedSeeds
  /\ executedSeeds # before.seeds

\* seed reverted a seed that was applied
C36_WitnessReverted ==
  /\ Succeeded("db:seed", seedToCall)
  /\ ~(before.seeds \subseteq executedSeeds)

\* seed without a name reverted a seed that was applied
C36_WitnessRevertedNoName ==
  /\ Succeeded("db:seed", seedToCall)
  /\ command.arg = Undefined
  /\ ~(before.seeds \subseteq executedSeeds)

\* The migrations applied are the first ones of the runner's list
AppliedIsPrefix == executedMigrations \in Prefixes(migrationFiles)

\* The migration rollback of an undo or undoAll has completed
RolledBack ==
  /\ command.name \in MigrationUndoCommands
  /\ resolution.called
  /\ migrateToCall.status = "ok"

C37_AppliedIsPrefix == AppliedIsPrefix

UndoResolutionFailed ==
  /\ command.name \in MigrationUndoCommands
  /\ resolution.called
  /\ resolution.result.kind # "ok"

\* The migrations applied before the invocation, up to and including the
\* rollback target (none for the sentinel)
KeptByRollback ==
  IF resolution.migration.kind = "migration"
  THEN {n \in before.migrations : PositionOf(n) <= PositionOf(resolution.migration.name)}
  ELSE {}

\* C38: in migration undo and undoAll, when seed-target resolution returns a
\* configuration error the command performs no seed operation and still
\* rolls the migrations back to the chosen target; any other resolution
\* error ends the command with failure before any migration is rolled back.
C38_ConfigErrorSkipsSeedsOnly ==
  UndoResolutionFailed =>
    IF IsConfigError(resolution.result)
    THEN /\ seedToCall = NoCall
         /\ executedSeeds = before.seeds
         /\ migrateToCall.status # "idle"
         /\ migrateToCall.target = TargetOf(resolution.migration)
         /\ migrateToCall.status = "ok" => executedMigrations = KeptByRollback
    ELSE /\ pc = "exited"
         /\ exitCode = 1
         /\ NothingWritten

\* The seeds folder is missing and the undo has rolled a migration back,
\* with an earlier one kept
C38_Witness ==
  /\ UndoResolutionFailed
  /\ IsConfigError(resolution.result)
  /\ pc = "exited"
  /\ exitCode = 0
  /\ executedMigrations # before.migrations
  /\ executedMigrations # {}

\* A read of the resolver rejected and the command ended with failure, the
\* applied migrations untouched
C38_WitnessOther ==
  /\ UndoResolutionFailed
  /\ ~IsConfigError(resolution.result)
  /\ before.migrations # {}
  /\ exitCode = 1

====
